---- MODULE Spec2Model ----
(***************************************************************************)
(* A model of the insight-extraction evaluation engine of syn              *)
(* (internal/eval): the scorer, the summary aggregator and the run history *)
(* store.  Go strings are TLA+ strings handled character by character;     *)
(* float64 ratios of small integers are kept as exact fractions            *)
(* [num, den], which order and compare as the correctly rounded floats do. *)
(***************************************************************************)
EXTENDS Integers, Sequences, FiniteSets, TLC

VARIABLES
    c,                \* score.go: the Case handed to ScoreCase
    out,              \* score.go: the ParsedOutput handed to ScoreCase
    recallThreshold,  \* score.go: ScoreCase's recallThreshold argument
    score,            \* the Score returned by the latest ScoreCase call
    prev,             \* the inputs and Score of the call before the latest one
    pc,               \* which call of the scoring driver was made last
    cases,            \* score.go: BuildModelSummary's cases argument
    sumThreshold,     \* score.go: BuildModelSummary's recallThreshold argument
    summary,          \* the ModelSummary returned by BuildModelSummary
    sumPc,            \* whether BuildModelSummary was called
    file,             \* history.go: the bytes of the history file (path)
    exists,           \* whether the history file exists
    hist,             \* the latest AppendHistory / LoadHistory call and its result
    conc,             \* history.go: two processes inside AppendHistory on one file
    board,            \* history.go: FilterHistory / BuildLeaderboard arguments and results
    data,             \* dataset.go: the dataset directory and LoadDataset's result
    parse,            \* parse.go: ParseOutput's argument and result
    run,              \* cmd/eval.go: one eval run, its report and the files it writes
    http,             \* app client: one Chat call and its HTTP attempts
    chat,             \* cmd/chat.go: the interactive session and its message window
    render            \* render.go: RenderMarkdown's argument and result

scoreVars == <<c, out, recallThreshold, score, prev, pc>>
sumVars == <<cases, sumThreshold, summary, sumPc>>
histVars == <<file, exists, hist>>
cmdVars == <<run, http, chat, render>>
laterVars == <<conc, board, data, parse, run, http, chat, render>>
vars == <<c, out, recallThreshold, score, prev, pc,
          cases, sumThreshold, summary, sumPc, file, exists, hist,
          conc, board, data, parse, run, http, chat, render>>

-----------------------------------------------------------------------------
(* Exact fractions standing for float64 values.                            *)

Frac(n, d) == [num |-> n, den |-> d]
FracGeq(a, b) == a.num * b.den >= b.num * a.den
FracGt(a, b) == a.num * b.den > b.num * a.den
FracEq(a, b) == a.num * b.den = b.num * a.den
FracAdd(a, b) == Frac(a.num * b.den + b.num * a.den, a.den * b.den)
FracDivInt(a, n) == Frac(a.num, a.den * n)
FracZero == Frac(0, 1)

-----------------------------------------------------------------------------
(* Go's strings package and the regexp of score.go, on ASCII text.         *)

LowerLetters == "abcdefghijklmnopqrstuvwxyz"
UpperLetters == "ABCDEFGHIJKLMNOPQRSTUVWXYZ"
DigitChars == "0123456789"

CharAt(s, i) == SubSeq(s, i, i)
CharsOf(s) == {CharAt(s, i) : i \in 1..Len(s)}
LowerSet == CharsOf(LowerLetters)
UpperSet == CharsOf(UpperLetters)
DigitSet == CharsOf(DigitChars)

\* unicode.IsSpace and the regexp class \s agree on these
IsSpace(ch) == ch \in {" ", "\t", "\n", "\r"}

LowerChar(ch) ==
    IF ch \in UpperSet
    THEN CharAt(LowerLetters, CHOOSE i \in 1..26 : CharAt(UpperLetters, i) = ch)
    ELSE ch

\* The string functions below split their range in halves, so that the
\* depth of the recursion is the logarithm of the string's length.

RECURSIVE ToLowerRange(_, _, _)
ToLowerRange(s, lo, hi) ==
    IF lo > hi THEN ""
    ELSE IF lo = hi THEN LowerChar(CharAt(s, lo))
    ELSE LET mid == (lo + hi) \div 2
         IN  ToLowerRange(s, lo, mid) \o ToLowerRange(s, mid + 1, hi)

ToLower(s) == ToLowerRange(s, 1, Len(s))

TrimSpace(s) ==
    LET kept == {i \in 1..Len(s) : ~IsSpace(CharAt(s, i))}
    IN  IF kept = {} THEN ""
        ELSE SubSeq(s, CHOOSE i \in kept : \A j \in kept : i <= j,
                       CHOOSE i \in kept : \A j \in kept : i >= j)

Contains(s, sub) ==
    \E i \in 1..(Len(s) - Len(sub) + 1) : SubSeq(s, i, i + Len(sub) - 1) = sub

HasPrefix(s, p) == Len(s) >= Len(p) /\ SubSeq(s, 1, Len(p)) = p
HasSuffix(s, p) == Len(s) >= Len(p) /\ SubSeq(s, Len(s) - Len(p) + 1, Len(s)) = p

\* strings.Fields: the maximal runs of non-space characters, in order
IsFieldStart(s, i) == ~IsSpace(CharAt(s, i)) /\ (i = 1 \/ IsSpace(CharAt(s, i - 1)))
FieldEnd(s, i) ==
    CHOOSE j \in i..Len(s) :
        /\ \A k \in i..j : ~IsSpace(CharAt(s, k))
        /\ j = Len(s) \/ IsSpace(CharAt(s, j + 1))

RECURSIVE FieldsRange(_, _, _)
FieldsRange(s, lo, hi) ==
    IF lo > hi THEN <<>>
    ELSE IF lo = hi
         THEN (IF IsFieldStart(s, lo) THEN <<SubSeq(s, lo, FieldEnd(s, lo))>> ELSE <<>>)
    ELSE LET mid == (lo + hi) \div 2
         IN  FieldsRange(s, lo, mid) \o FieldsRange(s, mid + 1, hi)

Fields(s) == FieldsRange(s, 1, Len(s))

RECURSIVE JoinRange(_, _, _, _)
JoinRange(ss, sep, lo, hi) ==
    IF lo > hi THEN ""
    ELSE IF lo = hi THEN ss[lo]
    ELSE LET mid == (lo + hi) \div 2
         IN  JoinRange(ss, sep, lo, mid) \o sep \o JoinRange(ss, sep, mid + 1, hi)

Join(ss, sep) == JoinRange(ss, sep, 1, Len(ss))

\* nonWordRe = [^a-z0-9\s]+ : the characters the pattern's class matches
IsNonWord(ch) == ~(ch \in LowerSet \/ ch \in DigitSet \/ IsSpace(ch))

\* nonWordRe.ReplaceAllString(s, " "): each maximal run of matching
\* characters becomes one space
RECURSIVE ReplaceNonWordRange(_, _, _)
ReplaceNonWordRange(s, lo, hi) ==
    IF lo > hi THEN ""
    ELSE IF lo = hi
         THEN (IF ~IsNonWord(CharAt(s, lo)) THEN CharAt(s, lo)
               ELSE IF lo > 1 /\ IsNonWord(CharAt(s, lo - 1)) THEN "" ELSE " ")
    ELSE LET mid == (lo + hi) \div 2
         IN  ReplaceNonWordRange(s, lo, mid) \o ReplaceNonWordRange(s, mid + 1, hi)

ReplaceNonWord(s) == ReplaceNonWordRange(s, 1, Len(s))

-----------------------------------------------------------------------------
(* internal/eval: parse.go normalizeLines and score.go.                    *)

RECURSIVE normalizeLines(_)
normalizeLines(in) ==
    IF in = <<>> THEN <<>>
    ELSE LET v == TrimSpace(Head(in))
         IN  (IF v # "" THEN <<v>> ELSE <<>>) \o normalizeLines(Tail(in))

normalizeText(s) ==
    LET s1 == ToLower(TrimSpace(s))
        s2 == ReplaceNonWord(s1)
    IN  Join(Fields(s2), " ")

MinTokenLen == 3

\* the fields of a normalized string that are at least MinTokenLen long
longTokens(fs) == {fs[i] : i \in {j \in 1..Len(fs) : Len(fs[j]) >= MinTokenLen}}

tokenSet(s) == longTokens(Fields(normalizeText(s)))

\* float64(inter) / float64(den), 0 when either set is empty
overlapOfSets(aSet, bSet) ==
    LET inter == Cardinality(aSet \cap bSet)
        den == IF Cardinality(bSet) > Cardinality(aSet)
               THEN Cardinality(bSet) ELSE Cardinality(aSet)
    IN  IF aSet = {} \/ bSet = {} THEN FracZero ELSE Frac(inter, den)

tokenOverlap(a, b) == overlapOfSets(tokenSet(a), tokenSet(b))

NegationMarkers == <<" not ", " no ", " never ", " cannot ", " can't ", " without ">>

containsNegation(s) ==
    \E k \in 1..Len(NegationMarkers) : Contains(" " \o s \o " ", NegationMarkers[k])

MatchOverlap == Frac(55, 100)
ContradictionOverlap == Frac(45, 100)

-----------------------------------------------------------------------------
(* The strings the scorer is run on, and the values of the string          *)
(* functions above on them, computed once: the scorer's loops below read   *)
(* normalizeText, strings.Contains, tokenOverlap and containsNegation from *)
(* these tables.                                                           *)

GoldPool == {"Check units daily.", "units", "No units matter", "Units matter", "..."}

PredPool ==
    {"no units matter", "Units can't matter", "Units: check calculations",
     "UNITS vary", "!!"}

SourceText == "Check units daily. Units matter."

\* (TLDR, EvidenceQuotes, recallThreshold) of the calls tried
Settings ==
    {<<"Use disciplined reasoning.", <<"units matter">>, Frac(9, 10)>>,
     <<"Use disciplined reasoning.", <<"Check UNITS", "experiments">>, Frac(1, 2)>>,
     <<"", <<>>, Frac(1, 2)>>}

\* a gold insight of twenty tokens and predictions sharing 11, 10, 9 and 8
\* of them: overlaps of exactly 0.55, 0.50, 0.45 and 0.40
Gold20 ==
    "aaa bbb ccc ddd eee fff ggg hhh iii jjj kkk lll mmm nnn ooo ppp qqq rrr sss ttt"
Pred11 == "bbb aaa ccc ddd eee fff ggg hhh iii jjj kkk"
Pred10 == "bbb aaa ccc ddd eee fff ggg hhh iii jjj"
PredNot9 == "not bbb aaa ccc ddd eee fff ggg hhh iii"
PredNot8 == "not bbb aaa ccc ddd eee fff ggg hhh"
BoundaryPreds == {Pred11, Pred10, PredNot9, PredNot8}


RawStrings == GoldPool \cup PredPool \cup {Gold20} \cup BoundaryPreds
NormStrings == {normalizeText(s) : s \in RawStrings}
QuotePool == UNION {{st[2][i] : i \in 1..Len(st[2])} : st \in Settings}

\* an explicit copy of function f, each value of which is computed once
Table(f) == f @@ <<>>

NormTable == Table([s \in RawStrings \cup NormStrings |-> normalizeText(s)])
ContainsTable == Table([a \in NormStrings |-> Table([b \in NormStrings |-> Contains(a, b)])])
OverlapTable == Table([a \in NormStrings |-> Table([b \in NormStrings |-> tokenOverlap(a, b)])])
NegationTable == Table([a \in NormStrings |-> containsNegation(a)])
QuoteTable ==
    Table([src \in {SourceText} |->
              Table([q \in QuotePool |-> Contains(ToLower(src), ToLower(TrimSpace(q)))])])

normalized(s) == NormTable[s]
contains(a, b) == ContainsTable[a][b]
overlap(a, b) == OverlapTable[a][b]
negated(a) == NegationTable[a]

-----------------------------------------------------------------------------
(* score.go: the scorer's loops.                                           *)

\* the tests of hasInsightMatch's loop on a normalized gold insight g and
\* a normalized predicted insight np
insightMatches(g, np) ==
    /\ np # ""
    /\ \/ contains(np, g) \/ contains(g, np)
       \/ FracGeq(overlap(g, np), MatchOverlap)

\* insightMatches with the overlap test written > instead of >=
insightMatchesStrict(g, np) ==
    /\ np # ""
    /\ \/ contains(np, g) \/ contains(g, np)
       \/ FracGt(overlap(g, np), MatchOverlap)

\* hasInsightMatch with the overlap test written > instead of >=
hasInsightMatchStrict(gold, predicted) ==
    \E i \in 1..Len(predicted) :
        insightMatchesStrict(normalized(gold), normalized(predicted[i]))

\* hasInsightMatch returning false from inside the loop, after the first
\* predicted insight that has text
hasInsightMatchFirstOnly(gold, predicted) ==
    \E i \in 1..Len(predicted) :
        /\ \A j \in 1..(i - 1) : normalized(predicted[j]) = ""
        /\ insightMatches(normalized(gold), normalized(predicted[i]))

\* the loop returns true at the first predicted insight that passes
hasInsightMatch(gold, predicted) ==
    \E i \in 1..Len(predicted) :
        insightMatches(normalized(gold), normalized(predicted[i]))

\* best and closestHasNegation before the inner loop
NoClosest == [best |-> FracZero, closestHasNegation |-> FALSE]

\* one pass of the inner loop: a strictly higher overlap s replaces best
closer(r, s, goldNegated) ==
    IF FracGt(s, r.best) THEN [best |-> s, closestHasNegation |-> goldNegated] ELSE r

closerGold(np, ng, r) == closer(r, overlap(np, ng), negated(ng))

\* the inner loop of estimateContradictions over gold[k..]: the highest
\* overlap so far and whether the gold insight that set it is negated
RECURSIVE closestGold(_, _, _, _)
closestGold(np, gold, k, r) ==
    IF k > Len(gold) THEN r
    ELSE closestGold(np, gold, k + 1, closerGold(np, normalized(gold[k]), r))

\* the test after the inner loop
countsAsContradiction(r) ==
    FracGeq(r.best, ContradictionOverlap) /\ ~r.closestHasNegation

\* the outer loop's body on the normalized predicted insight np
contradictionOfNormalized(np, gold) ==
    IF np = "" THEN 0
    ELSE IF ~negated(np) THEN 0
    ELSE IF countsAsContradiction(closestGold(np, gold, 1, NoClosest)) THEN 1
    ELSE 0

\* contradictionOf without the test of best against 0.45
contradictionOfAnyOverlap(gold, p) ==
    IF normalized(p) = "" THEN 0
    ELSE IF ~negated(normalized(p)) THEN 0
    ELSE IF ~closestGold(normalized(p), gold, 1, NoClosest).closestHasNegation THEN 1
    ELSE 0

\* one pass of the outer loop: what predicted insight p adds to count
contradictionOf(gold, p) == contradictionOfNormalized(normalized(p), gold)

RECURSIVE estimateContradictions(_, _)
estimateContradictions(gold, predicted) ==
    IF predicted = <<>> THEN 0
    ELSE contradictionOf(gold, Head(predicted))
         + estimateContradictions(gold, Tail(predicted))

\* missingCount with its subtraction the wrong way round
missingCountSwapped(total, matched) ==
    LET v == matched - total
    IN  IF v < 0 THEN 0 ELSE v

missingCount(total, matched) ==
    LET v == total - matched
    IN  IF v < 0 THEN 0 ELSE v

\* the loop of ScoreCase over gold
RECURSIVE matchedCount(_, _)
matchedCount(gold, predicted) ==
    IF gold = <<>> THEN 0
    ELSE (IF hasInsightMatch(Head(gold), predicted) THEN 1 ELSE 0)
         + matchedCount(Tail(gold), predicted)

\* the loop of ScoreCase over out.EvidenceQuotes
RECURSIVE quoteHitCount(_, _)
quoteHitCount(source, quotes) ==
    IF quotes = <<>> THEN 0
    ELSE (IF QuoteTable[source][Head(quotes)] THEN 1 ELSE 0)
         + quoteHitCount(source, Tail(quotes))

ZeroScore ==
    [Recall |-> FracZero, MissingInsights |-> 0, Contradictions |-> 0,
     QuoteCoverage |-> FracZero, FormatCompliant |-> FALSE, Pass |-> FALSE,
     MatchedGoldCount |-> 0]

\* the Score built from the counts of the loops
scoreFromCounts(total, matched, quotes, quoteHits, contradictions, formatOK, threshold) ==
    LET recall == IF total > 0 THEN Frac(matched, total) ELSE FracZero
        coverage == IF quotes > 0 THEN Frac(quoteHits, quotes) ELSE FracZero
    IN  [Recall |-> recall,
         MissingInsights |-> missingCount(total, matched),
         Contradictions |-> contradictions,
         QuoteCoverage |-> coverage,
         FormatCompliant |-> formatOK,
         Pass |-> FracGeq(recall, threshold) /\ contradictions = 0 /\ formatOK,
         MatchedGoldCount |-> matched]

\* ScoreCase after gold := normalizeLines(c.GoldInsights)
scoreWithGold(gold, case, o, threshold) ==
    scoreFromCounts(Len(gold),
                    matchedCount(gold, o.KeyInsights),
                    Len(o.EvidenceQuotes),
                    quoteHitCount(case.Source, o.EvidenceQuotes),
                    estimateContradictions(gold, o.KeyInsights),
                    o.TLDR # "" /\ Len(o.KeyInsights) > 0 /\ Len(o.EvidenceQuotes) > 0,
                    threshold)

ScoreCase(case, o, threshold) ==
    scoreWithGold(normalizeLines(case.GoldInsights), case, o, threshold)

-----------------------------------------------------------------------------
(* The scoring driver: ScoreCase applied to a case and a parsed output,    *)
(* then applied again to a related input (the same case with a copy of a   *)
(* gold insight appended to the predictions, or with its gold insights     *)
(* reordered).  Gold and predicted insights are as the loaders store them: *)
(* trimmed and non-empty (dataset.go:90, parse.go:37).                     *)

MaxGold == 2
MaxPred == 2

SeqsUpTo(S, n) == UNION {[1..k -> S] : k \in 0..n}

NoCall == [out |-> <<>>, gold |-> <<>>, score |-> ZeroScore, copied |-> 0]

ScoreInit ==
    /\ \E st \in Settings :
          /\ recallThreshold = st[3]
          /\ \/ /\ \E g \in SeqsUpTo(GoldPool, MaxGold) :
                      c = [ID |-> "01", Title |-> "t", Source |-> SourceText,
                           GoldInsights |-> g]
                /\ \E k \in SeqsUpTo(PredPool, MaxPred) :
                      out = [TLDR |-> st[1], KeyInsights |-> k, EvidenceQuotes |-> st[2]]
             \/ /\ c = [ID |-> "02", Title |-> "t", Source |-> SourceText,
                        GoldInsights |-> <<Gold20>>]
                /\ \E p \in BoundaryPreds :
                      out = [TLDR |-> st[1], KeyInsights |-> <<p>>, EvidenceQuotes |-> st[2]]
    /\ score = ZeroScore
    /\ prev = NoCall
    /\ pc = "input"

ScoreIdle ==
    /\ c = [ID |-> "", Title |-> "", Source |-> "", GoldInsights |-> <<>>]
    /\ out = [TLDR |-> "", KeyInsights |-> <<>>, EvidenceQuotes |-> <<>>]
    /\ recallThreshold = Frac(9, 10)
    /\ score = ZeroScore
    /\ prev = NoCall
    /\ pc = "idle"

\* s := ScoreCase(c, out, recallThreshold)
ScoreCaseCall ==
    /\ pc = "input"
    /\ score' = ScoreCase(c, out, recallThreshold)
    /\ pc' = "scored"
    /\ UNCHANGED <<c, out, recallThreshold, prev>>

\* ScoreCase again, after appending an exact copy of gold insight i to the
\* predicted insights
ScoreWithCopy(i) ==
    /\ pc = "scored"
    /\ i \in 1..Len(c.GoldInsights)
    /\ out' = [out EXCEPT !.KeyInsights = Append(@, c.GoldInsights[i])]
    /\ score' = ScoreCase(c, out', recallThreshold)
    /\ prev' = [out |-> out.KeyInsights, gold |-> c.GoldInsights,
                score |-> score, copied |-> i]
    /\ pc' = "copied"
    /\ UNCHANGED <<c, recallThreshold>>

IndexOrders(n) == {f \in [1..n -> 1..n] : \A i, j \in 1..n : f[i] = f[j] => i = j}

\* ScoreCase again, on the same case with its gold insights in another order
ScorePermuted(f) ==
    /\ pc = "scored"
    /\ f \in IndexOrders(Len(c.GoldInsights))
    /\ \E i \in 1..Len(c.GoldInsights) : f[i] # i
    /\ c' = [c EXCEPT !.GoldInsights = [i \in 1..Len(@) |-> @[f[i]]]]
    /\ score' = ScoreCase(c', out, recallThreshold)
    /\ prev' = [out |-> out.KeyInsights, gold |-> c.GoldInsights,
                score |-> score, copied |-> 0]
    /\ pc' = "permuted"
    /\ UNCHANGED <<out, recallThreshold>>

SumIdle ==
    /\ cases = <<>>
    /\ sumThreshold = Frac(9, 10)
    /\ summary = 0
    /\ sumPc = "idle"

HistIdle ==
    /\ file = <<>>
    /\ exists = FALSE
    /\ hist = 0

ConcIdle == conc = 0
BoardIdle == board = 0
DataIdle == data = 0
ParseIdle == parse = 0
CmdIdle == run = 0 /\ http = 0 /\ chat = 0 /\ render = 0
LaterIdle == ConcIdle /\ BoardIdle /\ DataIdle /\ ParseIdle /\ CmdIdle

InitScore == ScoreInit /\ SumIdle /\ HistIdle /\ LaterIdle

NextScore ==
    \/ ScoreCaseCall /\ UNCHANGED <<sumVars, histVars, laterVars>>
    \/ \E i \in 1..(MaxGold + 1) : ScoreWithCopy(i) /\ UNCHANGED <<sumVars, histVars, laterVars>>
    \/ \E f \in UNION {IndexOrders(n) : n \in 0..(MaxGold + 1)} :
           ScorePermuted(f) /\ UNCHANGED <<sumVars, histVars, laterVars>>

SpecScore == InitScore /\ [][NextScore]_vars

-----------------------------------------------------------------------------
(* The scorer's claims.  What a claim says of the text of an insight is    *)
(* written out here from its wording, not taken from the scorer.           *)

Called == pc \in {"scored", "copied", "permuted"}

IsAlnum(ch) == ch \in LowerSet \/ ch \in DigitSet

\* the maximal runs, in the lower-cased text, of characters satisfying the
\* class: of letters and digits (apostrophe FALSE) or of letters, digits and
\* apostrophes (apostrophe TRUE)
WordsOf(s, apostrophe) ==
    LET t == ToLower(s)
        In(i) == IsAlnum(CharAt(t, i)) \/ (apostrophe /\ CharAt(t, i) = "'")
    IN  {SubSeq(t, i, j) : <<i, j>> \in
            {ij \in (1..Len(t)) \X (1..Len(t)) :
                /\ ij[1] <= ij[2]
                /\ \A k \in ij[1]..ij[2] : In(k)
                /\ ij[1] = 1 \/ ~In(ij[1] - 1)
                /\ ij[2] = Len(t) \/ ~In(ij[2] + 1)}}

MarkerWords == {"not", "no", "never", "cannot", "can't", "without"}

ClaimTokensTable == Table([s \in RawStrings |-> {w \in WordsOf(s, FALSE) : Len(w) >= 3}])
ClaimMarkerTable ==
    Table([s \in RawStrings |-> WordsOf(s, TRUE) \cap MarkerWords # {}])
ClaimAnyMarkerTable ==
    Table([s \in RawStrings |->
              (WordsOf(s, TRUE) \cup WordsOf(s, FALSE)) \cap MarkerWords # {}])

\* |A \cap B| and max(|A|, |B|) for the token sets A of a and B of b
ClaimOverlapTable ==
    Table([a \in RawStrings |-> Table([b \in RawStrings |->
        LET A == ClaimTokensTable[a]
            B == ClaimTokensTable[b]
        IN  [common |-> Cardinality(A \cap B),
             most |-> IF Cardinality(A) >= Cardinality(B)
                      THEN Cardinality(A) ELSE Cardinality(B)]])])

\* |A \cap B| / max(|A|, |B|) >= pct / 100
ClaimOverlapAtLeast(a, b, pct) ==
    LET o == ClaimOverlapTable[a][b]
    IN  o.most > 0 /\ o.common * 100 >= pct * o.most

\* one of the three conditions of C2 holds of gold insight g and predicted
\* insight p
ClaimPairTable ==
    Table([g \in RawStrings |-> Table([p \in RawStrings |->
        \/ contains(normalized(g), normalized(p))
        \/ contains(normalized(p), normalized(g))
        \/ ClaimOverlapAtLeast(g, p, 55)])])

\* the condition of C2 as the claim words it
ClaimMatchedOriginal(g, predicted) ==
    \E i \in 1..Len(predicted) : ClaimPairTable[g][predicted[i]]

\* the same, over the predicted insights whose normalized text is not empty
ClaimMatched(g, predicted) ==
    \E i \in 1..Len(predicted) :
        normalized(predicted[i]) # "" /\ ClaimPairTable[g][predicted[i]]

\* C1: every Score returned by ScoreCase has Recall = MatchedGoldCount /
\* (number of gold insights) when there is a gold insight and Recall = 0
\* otherwise, MatchedGoldCount + MissingInsights = number of gold insights,
\* and Pass exactly when Recall >= recallThreshold, Contradictions = 0 and
\* FormatCompliant.
Thm_C1_ScoreInvariant ==
    Called =>
        LET n == Len(c.GoldInsights)
        IN  /\ n > 0 => FracEq(score.Recall, Frac(score.MatchedGoldCount, n))
            /\ n = 0 => score.Recall.num = 0
            /\ score.MatchedGoldCount + score.MissingInsights = n
            /\ score.Pass <=> /\ FracGeq(score.Recall, recallThreshold)
                              /\ score.Contradictions = 0
                              /\ score.FormatCompliant

\* a call that passed with two gold insights matched
Wit_C1_PassWithTwoMatched ==
    pc = "scored" /\ score.Pass /\ score.MatchedGoldCount = 2 /\ score.MissingInsights = 0

\* C2 as claimed: a gold insight is counted as matched if and only if some
\* predicted insight contains it, is contained in it (normalized), or
\* overlaps it by at least 0.55.
Orig_C2_MatchedIffContainmentOrOverlap ==
    Called =>
        score.MatchedGoldCount =
            Cardinality({k \in 1..Len(c.GoldInsights) :
                            ClaimMatchedOriginal(c.GoldInsights[k], out.KeyInsights)})

\* C2 amended: a gold insight is counted as matched if and only if some
\* predicted insight whose normalized text is not empty contains it, is
\* contained in it, or overlaps it by at least 0.55 (exactly 0.55 matches).
Thm_C2_MatchedIffNonEmptyPrediction ==
    Called =>
        /\ score.MatchedGoldCount =
               Cardinality({k \in 1..Len(c.GoldInsights) :
                               ClaimMatched(c.GoldInsights[k], out.KeyInsights)})
        /\ \A k \in 1..Len(c.GoldInsights) :
               hasInsightMatch(c.GoldInsights[k], out.KeyInsights)
                   <=> ClaimMatched(c.GoldInsights[k], out.KeyInsights)

\* a gold insight matched by an overlap of exactly 0.55 and nothing else
Wit_C2_MatchedAtExactly055 ==
    /\ pc = "scored" /\ c.GoldInsights = <<Gold20>> /\ out.KeyInsights = <<Pred11>>
    /\ score.MatchedGoldCount = 1
    /\ ~contains(normalized(Gold20), normalized(Pred11))
    /\ FracEq(overlap(normalized(Gold20), normalized(Pred11)), MatchOverlap)

\* the first gold insight with the highest overlap with p, as the scorer's
\* loop picks it (0 when no gold insight overlaps p at all)
ClaimClosest(p, gold) ==
    LET O(k) == ClaimOverlapTable[p][gold[k]]
        AtLeast(k, j) == O(k).common * O(j).most >= O(j).common * O(k).most
        best == {k \in 1..Len(gold) :
                    /\ O(k).common > 0
                    /\ \A j \in 1..Len(gold) : O(j).common > 0 => AtLeast(k, j)}
    IN  IF best = {} THEN 0 ELSE CHOOSE k \in best : \A j \in best : k <= j

\* C3 as claimed: one contradiction is counted for every predicted insight
\* that has one of the six negation markers as a word, whose highest overlap
\* with the gold insights is at least 0.45 and whose best-overlapping gold
\* insight has no negation marker (ties between gold insights taken as the
\* scorer takes them: the first one).
Orig_C3_EveryNegatedOverlapCounted ==
    Called =>
        score.Contradictions =
            Cardinality({i \in 1..Len(out.KeyInsights) :
                LET p == out.KeyInsights[i]
                    k == ClaimClosest(p, c.GoldInsights)
                IN  /\ ClaimMarkerTable[p]
                    /\ k # 0
                    /\ ClaimOverlapAtLeast(p, c.GoldInsights[k], 45)
                    /\ ~ClaimMarkerTable[c.GoldInsights[k]]})

\* C4: a predicted insight with no negation marker is never counted as a
\* contradiction, nor one that no gold insight overlaps by at least 0.45,
\* and each predicted insight adds at most 1: Contradictions is at most the
\* number of predicted insights that have a marker and such a gold insight.
Thm_C4_OnlyNegatedOverlapping ==
    Called =>
        score.Contradictions <=
            Cardinality({i \in 1..Len(out.KeyInsights) :
                /\ ClaimAnyMarkerTable[out.KeyInsights[i]]
                /\ \E k \in 1..Len(c.GoldInsights) :
                       ClaimOverlapAtLeast(out.KeyInsights[i], c.GoldInsights[k], 45)})

\* no contradiction counted although one prediction without a marker
\* overlaps a gold insight by 0.45 or more and another, with a marker,
\* overlaps every gold insight by less
Wit_C4_NoneCounted ==
    /\ pc = "scored" /\ score.Contradictions = 0 /\ c.GoldInsights # <<>>
    /\ \E i \in 1..Len(out.KeyInsights) :
           /\ ~ClaimAnyMarkerTable[out.KeyInsights[i]]
           /\ \E k \in 1..Len(c.GoldInsights) :
                  ClaimOverlapAtLeast(out.KeyInsights[i], c.GoldInsights[k], 45)
    /\ \E i \in 1..Len(out.KeyInsights) :
           /\ ClaimMarkerTable[out.KeyInsights[i]]
           /\ negated(normalized(out.KeyInsights[i]))
           /\ \A k \in 1..Len(c.GoldInsights) :
                  /\ ClaimOverlapAtLeast(out.KeyInsights[i], c.GoldInsights[k], 1)
                  /\ ~ClaimOverlapAtLeast(out.KeyInsights[i], c.GoldInsights[k], 45)

\* C5 as claimed: after appending an exact copy of a gold insight, Recall is
\* strictly higher when that gold insight was unmatched and equal when it
\* was matched; with no predictions and a gold insight Recall is 0.
Orig_C5_CopyRaisesOrKeepsRecall ==
    /\ pc = "copied" =>
           LET g == prev.gold[prev.copied]
           IN  IF hasInsightMatch(g, prev.out)
               THEN FracEq(score.Recall, prev.score.Recall)
               ELSE FracGt(score.Recall, prev.score.Recall)
    /\ (pc = "scored" /\ out.KeyInsights = <<>> /\ c.GoldInsights # <<>>)
           => score.Recall.num = 0

\* C5 amended: appending an exact copy of a gold insight never lowers
\* Recall; when the copied gold insight has a letter or a digit (its
\* normalized text is not empty) it is matched afterwards, and Recall is
\* strictly higher when it was unmatched before; with no predictions and a
\* gold insight Recall is 0.
Thm_C5_CopyNeverLowersRecall ==
    /\ pc = "copied" =>
           LET g == prev.gold[prev.copied]
           IN  /\ FracGeq(score.Recall, prev.score.Recall)
               /\ score.MatchedGoldCount >= prev.score.MatchedGoldCount
               /\ normalized(g) # "" =>
                      /\ ClaimMatched(g, out.KeyInsights)
                      /\ score.MatchedGoldCount >= 1
                      /\ ~ClaimMatched(g, prev.out)
                             => FracGt(score.Recall, prev.score.Recall)
    /\ (pc = "scored" /\ out.KeyInsights = <<>> /\ c.GoldInsights # <<>>)
           => score.Recall.num = 0

\* the copy of a gold insight that was unmatched raised Recall
Wit_C5_CopyRaisedRecall ==
    /\ pc = "copied"
    /\ normalized(prev.gold[prev.copied]) # ""
    /\ ~ClaimMatched(prev.gold[prev.copied], prev.out)
    /\ prev.out # <<>>
    /\ FracGt(score.Recall, prev.score.Recall)

\* C6 as claimed: ScoreCase returns the same Score for every order of the
\* case's gold insights.
Orig_C6_GoldOrderIrrelevant ==
    pc = "permuted" => score = prev.score

-----------------------------------------------------------------------------
(* BuildModelSummary.  The recalls and coverages of the case results are   *)
(* drawn from values a float64 holds exactly (0, 1/2, 1), so that the sums *)
(* of the loop are exact and a comparison of the quotient with the         *)
(* threshold agrees with the comparison of the fractions.                  *)

ZeroSummary ==
    [AverageRecall |-> FracZero, AverageCoverage |-> FracZero,
     TotalContradictions |-> 0, FormatPassRate |-> FracZero, OverallPass |-> FALSE]

\* the totals the loop over the cases accumulates
RECURSIVE summaryTotals(_)
summaryTotals(cs) ==
    IF cs = <<>>
    THEN [totalRecall |-> FracZero, totalCoverage |-> FracZero,
          totalContradictions |-> 0, formatPasses |-> 0, passCount |-> 0]
    ELSE LET t  == summaryTotals(SubSeq(cs, 1, Len(cs) - 1))
             sc == cs[Len(cs)].Score
         IN  [totalRecall |-> FracAdd(t.totalRecall, sc.Recall),
              totalCoverage |-> FracAdd(t.totalCoverage, sc.QuoteCoverage),
              totalContradictions |-> t.totalContradictions + sc.Contradictions,
              formatPasses |-> t.formatPasses + (IF sc.FormatCompliant THEN 1 ELSE 0),
              passCount |-> t.passCount + (IF sc.Pass THEN 1 ELSE 0)]

\* BuildModelSummary with passCount > 0 in place of passCount == len(cases)
BuildModelSummarySomePass(cs, threshold) ==
    IF Len(cs) = 0 THEN ZeroSummary
    ELSE LET t == summaryTotals(cs)
             avgRecall == FracDivInt(t.totalRecall, Len(cs))
         IN  [AverageRecall |-> avgRecall,
              AverageCoverage |-> FracDivInt(t.totalCoverage, Len(cs)),
              TotalContradictions |-> t.totalContradictions,
              FormatPassRate |-> Frac(t.formatPasses, Len(cs)),
              OverallPass |-> /\ FracGeq(avgRecall, threshold)
                              /\ t.totalContradictions = 0
                              /\ t.passCount > 0]

BuildModelSummary(cs, threshold) ==
    IF Len(cs) = 0 THEN ZeroSummary
    ELSE LET t == summaryTotals(cs)
             avgRecall == FracDivInt(t.totalRecall, Len(cs))
         IN  [AverageRecall |-> avgRecall,
              AverageCoverage |-> FracDivInt(t.totalCoverage, Len(cs)),
              TotalContradictions |-> t.totalContradictions,
              FormatPassRate |-> Frac(t.formatPasses, Len(cs)),
              OverallPass |-> /\ FracGeq(avgRecall, threshold)
                              /\ t.totalContradictions = 0
                              /\ t.passCount = Len(cs)]

MaxCases == 2

\* the Score of a case result, as any caller may hand it in
ScorePool ==
    [Recall : {Frac(0, 1), Frac(1, 2), Frac(1, 1)},
     MissingInsights : {0},
     Contradictions : {0, 1},
     QuoteCoverage : {Frac(0, 1), Frac(1, 1)},
     FormatCompliant : BOOLEAN,
     Pass : BOOLEAN,
     MatchedGoldCount : {0}]

CaseResultPool ==
    {[CaseID |-> "01", RawOutput |-> "", Score |-> sc, Error |-> ""] : sc \in ScorePool}

SumInit ==
    /\ cases \in SeqsUpTo(CaseResultPool, MaxCases)
    /\ sumThreshold \in {Frac(1, 2), Frac(9, 10)}
    /\ summary = ZeroSummary
    /\ sumPc = "input"

BuildModelSummaryCall ==
    /\ sumPc = "input"
    /\ summary' = BuildModelSummary(cases, sumThreshold)
    /\ sumPc' = "done"
    /\ UNCHANGED <<cases, sumThreshold>>

InitSum == ScoreIdle /\ SumInit /\ HistIdle /\ LaterIdle

NextSum == BuildModelSummaryCall /\ UNCHANGED <<scoreVars, histVars, laterVars>>

SpecSum == InitSum /\ [][NextSum]_vars

-----------------------------------------------------------------------------
(* The history file.  Its content is a sequence of pieces: the braces of a *)
(* JSON object, one piece per "key":value member, the line feed, carriage  *)
(* return and space, a byte that belongs to no JSON text, and a run of n   *)
(* such bytes.  A time is an instant (unix), a zone offset, a location and *)
(* a monotonic clock reading; a float64 is a fraction, 0/0 standing for    *)
(* NaN.                                                                    *)

JStr(str) == [t |-> "string", s |-> str, f |-> FracZero, b |-> FALSE]
JNum(fr) == [t |-> "number", s |-> "", f |-> fr, b |-> FALSE]
JBool(bl) == [t |-> "bool", s |-> "", f |-> FracZero, b |-> bl]

Piece(kind) == [kind |-> kind, k |-> "", v |-> JBool(FALSE), n |-> 1]
Member(key, val) == [kind |-> "member", k |-> key, v |-> val, n |-> 1]
Blob(size) == [kind |-> "blob", k |-> "", v |-> JBool(FALSE), n |-> size]
LBrace == Piece("{")
RBrace == Piece("}")
LF == Piece("\n")
CR == Piece("\r")
SP == Piece(" ")
Junk == Piece("x")

\* the bytes a piece takes in the file; for a member an estimate, of which
\* only the scale against MaxScanTokenSize matters
ByteLen(piece) ==
    CASE piece.kind = "blob" -> piece.n
      [] piece.kind = "member" -> Len(piece.k) + Len(piece.v.s) + 16
      [] OTHER -> 1

RECURSIVE GCD(_, _)
GCD(a, b) == IF b = 0 THEN a ELSE GCD(b, a % b)

IsNaN(fr) == fr.den = 0

\* strconv's shortest text that reads back as the same float64: the
\* fraction in lowest terms
FormatFloat(fr) ==
    LET g == GCD(fr.num, fr.den) IN Frac(fr.num \div g, fr.den \div g)

LocalOffset == 60
MaxUnix == 2
ZoneOffsets == {0, LocalOffset}
ZeroTime == [unix |-> 0, offset |-> 0, loc |-> "UTC", mono |-> 0]

\* Time.MarshalJSON: RFC 3339 text of the instant and the offset; the
\* monotonic reading and the location's name are not written
FormatTime(tm) ==
    "T" \o ToString(tm.unix) \o
        (IF tm.offset = 0 THEN "Z" ELSE "+" \o ToString(tm.offset))

\* Time.UnmarshalJSON
ParseTime(text) ==
    LET hits == {uo \in (0..MaxUnix) \X ZoneOffsets :
                    FormatTime([unix |-> uo[1], offset |-> uo[2]]) = text}
    IN  IF hits = {} THEN [ok |-> FALSE, time |-> ZeroTime]
        ELSE LET uo == CHOOSE x \in hits : TRUE
             IN  [ok |-> TRUE,
                  time |-> [unix |-> uo[1], offset |-> uo[2],
                            loc |-> IF uo[2] = 0 THEN "UTC" ELSE "Local",
                            mono |-> 0]]

\* Time.Equal
TimeEqual(a, b) == a.unix = b.unix

ZeroRecord ==
    [GeneratedAt |-> ZeroTime, DatasetPath |-> "", RecallThreshold |-> FracZero,
     ModelID |-> "", CaseCount |-> 0, AverageRecall |-> FracZero,
     AverageCoverage |-> FracZero, Contradictions |-> 0,
     FormatPassRate |-> FracZero, OverallPass |-> FALSE]

\* the RunRecord AppendHistory builds for model m of the report
RunRecord(report, m) ==
    [GeneratedAt |-> report.GeneratedAt,
     DatasetPath |-> report.DatasetPath,
     RecallThreshold |-> report.RecallThreshold,
     ModelID |-> m.ModelID,
     CaseCount |-> Len(m.Cases),
     AverageRecall |-> m.Summary.AverageRecall,
     AverageCoverage |-> m.Summary.AverageCoverage,
     Contradictions |-> m.Summary.TotalContradictions,
     FormatPassRate |-> m.Summary.FormatPassRate,
     OverallPass |-> m.Summary.OverallPass]

FloatKeys == {"recall_threshold", "average_recall", "average_quote_coverage", "format_pass_rate"}
IntKeys == {"case_count", "total_contradictions"}
StringKeys == {"dataset_path", "model_id"}

\* json.Marshal of a RunRecord followed by the line feed Encode adds; it
\* fails on a float64 that is NaN
Marshal(rec) ==
    IF \/ IsNaN(rec.RecallThreshold) \/ IsNaN(rec.AverageRecall)
       \/ IsNaN(rec.AverageCoverage) \/ IsNaN(rec.FormatPassRate)
    THEN [ok |-> FALSE, bytes |-> <<>>]
    ELSE [ok |-> TRUE,
          bytes |-> <<LBrace,
                      Member("generated_at", JStr(FormatTime(rec.GeneratedAt))),
                      Member("dataset_path", JStr(rec.DatasetPath)),
                      Member("recall_threshold", JNum(FormatFloat(rec.RecallThreshold))),
                      Member("model_id", JStr(rec.ModelID)),
                      Member("case_count", JNum(Frac(rec.CaseCount, 1))),
                      Member("average_recall", JNum(FormatFloat(rec.AverageRecall))),
                      Member("average_quote_coverage", JNum(FormatFloat(rec.AverageCoverage))),
                      Member("total_contradictions", JNum(Frac(rec.Contradictions, 1))),
                      Member("format_pass_rate", JNum(FormatFloat(rec.FormatPassRate))),
                      Member("overall_pass", JBool(rec.OverallPass)),
                      RBrace, LF>>]

\* whether a member can be stored in the field of RunRecord its key names
MemberFits(m) ==
    CASE m.k = "generated_at" -> m.v.t = "string" /\ ParseTime(m.v.s).ok
      [] m.k \in StringKeys -> m.v.t = "string"
      [] m.k \in FloatKeys -> m.v.t = "number"
      [] m.k \in IntKeys -> m.v.t = "number" /\ m.v.f.den = 1
      [] m.k = "overall_pass" -> m.v.t = "bool"
      [] OTHER -> TRUE

IsBlank(piece) == piece.kind \in {" ", "\r", "\n"}

\* strings.TrimSpace on the pieces of a line
TrimLine(line) ==
    LET keep == {i \in 1..Len(line) : ~IsBlank(line[i])}
    IN  IF keep = {} THEN <<>>
        ELSE SubSeq(line, CHOOSE i \in keep : \A j \in keep : i <= j,
                          CHOOSE i \in keep : \A j \in keep : i >= j)

\* json.Unmarshal of a line into a zero RunRecord: an object whose members
\* fit; unknown keys are ignored, of a repeated key the last member counts
Unmarshal(line) ==
    LET n == Len(line)
        wellFormed ==
            /\ n >= 2 /\ line[1] = LBrace /\ line[n] = RBrace
            /\ \A i \in 2..(n - 1) : line[i].kind = "member" \/ IsBlank(line[i])
        members == {i \in 2..(n - 1) : line[i].kind = "member"}
        Has(key) == \E i \in members : line[i].k = key
        Val(key) ==
            line[CHOOSE i \in members :
                    /\ line[i].k = key
                    /\ \A j \in members : line[j].k = key => j <= i].v
    IN  IF ~wellFormed \/ \E i \in members : ~MemberFits(line[i])
        THEN [ok |-> FALSE, rec |-> ZeroRecord]
        ELSE [ok |-> TRUE,
              rec |->
                [GeneratedAt |-> IF Has("generated_at")
                                 THEN ParseTime(Val("generated_at").s).time ELSE ZeroTime,
                 DatasetPath |-> IF Has("dataset_path") THEN Val("dataset_path").s ELSE "",
                 RecallThreshold |-> IF Has("recall_threshold")
                                     THEN Val("recall_threshold").f ELSE FracZero,
                 ModelID |-> IF Has("model_id") THEN Val("model_id").s ELSE "",
                 CaseCount |-> IF Has("case_count") THEN Val("case_count").f.num ELSE 0,
                 AverageRecall |-> IF Has("average_recall")
                                   THEN Val("average_recall").f ELSE FracZero,
                 AverageCoverage |-> IF Has("average_quote_coverage")
                                     THEN Val("average_quote_coverage").f ELSE FracZero,
                 Contradictions |-> IF Has("total_contradictions")
                                    THEN Val("total_contradictions").f.num ELSE 0,
                 FormatPassRate |-> IF Has("format_pass_rate")
                                    THEN Val("format_pass_rate").f ELSE FracZero,
                 OverallPass |-> IF Has("overall_pass") THEN Val("overall_pass").b ELSE FALSE]]

MaxScanTokenSize == 65536

RECURSIVE SumBytes(_)
SumBytes(line) == IF line = <<>> THEN 0 ELSE ByteLen(Head(line)) + SumBytes(Tail(line))

\* the loop of LoadHistory from piece number start on: bufio.Scanner hands
\* over the bytes up to the next line feed (or up to the end of the file,
\* when bytes follow the last line feed) and gives up with ErrTooLong on
\* MaxScanTokenSize bytes without a line feed
RECURSIVE scanFrom(_, _)
scanFrom(content, start) ==
    IF start > Len(content) THEN [rows |-> <<>>, err |-> "nil"]
    ELSE LET feeds == {i \in start..Len(content) : content[i] = LF}
             stop  == IF feeds = {} THEN Len(content) + 1
                      ELSE CHOOSE i \in feeds : \A j \in feeds : i <= j
             text  == SubSeq(content, start, stop - 1)
         IN  IF SumBytes(text) >= MaxScanTokenSize
             THEN [rows |-> <<>>, err |-> "scan history file"]
             ELSE LET rest == scanFrom(content, stop + 1)
                      line == TrimLine(text)
                      u    == Unmarshal(line)
                  IN  IF rest.err # "nil" THEN rest
                      ELSE IF line = <<>> \/ ~u.ok THEN rest
                      ELSE [rows |-> <<u.rec>> \o rest.rows, err |-> "nil"]

\* LoadHistory; openFails is the file system refusing an existing file
LoadHistory(content, present, openFails) ==
    IF ~present THEN [rows |-> <<>>, err |-> "nil"]
    ELSE IF openFails THEN [rows |-> <<>>, err |-> "open history file"]
    ELSE scanFrom(content, 1)

\* a write on a descriptor opened with O_WRONLY without O_APPEND, at offset 0
writeAtStart(content, bytes) ==
    IF Len(bytes) >= Len(content) THEN bytes
    ELSE bytes \o SubSeq(content, Len(bytes) + 1, Len(content))

\* a write on the descriptor opened with O_APPEND
writeAppend(content, bytes) == content \o bytes

\* the loop of AppendHistory over the models from number i on; the write of
\* the line of model failAt stops after cut pieces with an error
RECURSIVE encodeFrom(_, _, _, _, _)
encodeFrom(content, report, i, failAt, cut) ==
    IF i > Len(report.Models) THEN [content |-> content, err |-> "nil"]
    ELSE LET m == Marshal(RunRecord(report, report.Models[i]))
         IN  IF ~m.ok THEN [content |-> content, err |-> "append history record"]
             ELSE IF i = failAt
             THEN [content |-> writeAppend(content, SubSeq(m.bytes, 1, cut)),
                   err |-> "append history record"]
             ELSE encodeFrom(writeAppend(content, m.bytes), report, i + 1, failAt, cut)

\* AppendHistory; openFails is the file system refusing to open or create
AppendHistory(content, present, report, openFails, failAt, cut) ==
    IF openFails
    THEN [content |-> content, present |-> present, err |-> "open history file"]
    ELSE LET r == encodeFrom(content, report, 1, failAt, cut)
         IN  [content |-> r.content, present |-> TRUE, err |-> r.err]

MaxAppends == 2
PartialCuts == {1, 12}

Time1 == [unix |-> 1, offset |-> 0, loc |-> "UTC", mono |-> 0]
Time2 == [unix |-> 2, offset |-> LocalOffset, loc |-> "Local", mono |-> 5]

PassedCase ==
    [CaseID |-> "01", RawOutput |-> "", Error |-> "",
     Score |-> [Recall |-> Frac(1, 1), MissingInsights |-> 0, Contradictions |-> 0,
                QuoteCoverage |-> Frac(1, 2), FormatCompliant |-> TRUE, Pass |-> TRUE,
                MatchedGoldCount |-> 1]]

ModelA ==
    [ModelID |-> "m1", Cases |-> <<PassedCase, PassedCase>>,
     Summary |-> BuildModelSummary(<<PassedCase, PassedCase>>, Frac(9, 10))]
ModelB == [ModelID |-> "m2", Cases |-> <<PassedCase>>, Summary |-> ZeroSummary]
ModelNaN ==
    [ModelID |-> "m3", Cases |-> <<>>,
     Summary |-> [ZeroSummary EXCEPT !.AverageRecall = Frac(0, 0)]]

NoReport ==
    [GeneratedAt |-> ZeroTime, DatasetPath |-> "", RecallThreshold |-> FracZero,
     Models |-> <<>>]

ReportPool ==
    {[GeneratedAt |-> Time1, DatasetPath |-> "d1", RecallThreshold |-> Frac(9, 10),
      Models |-> <<>>],
     [GeneratedAt |-> Time2, DatasetPath |-> "d1", RecallThreshold |-> Frac(9, 10),
      Models |-> <<ModelA, ModelB>>],
     [GeneratedAt |-> Time1, DatasetPath |-> "d2", RecallThreshold |-> Frac(1, 2),
      Models |-> <<ModelB>>],
     [GeneratedAt |-> Time1, DatasetPath |-> "d1", RecallThreshold |-> Frac(9, 10),
      Models |-> <<ModelB, ModelNaN>>]}

OldLine == <<LBrace, Member("model_id", JStr("old")), Member("note", JStr("n")), RBrace>>
BadTypeLine == <<LBrace, Member("case_count", JStr("3")), RBrace>>

\* the history file before the first call: absent, empty, lines of an
\* earlier writer (with a carriage return, blank, not JSON, of a wrong
\* type), a last line cut short, a last line without its line feed, and a
\* line of MaxScanTokenSize bytes and one of a byte less
SeedFiles ==
    {[content |-> <<>>, present |-> FALSE],
     [content |-> <<>>, present |-> TRUE],
     [content |-> OldLine \o <<CR, LF, SP, LF, Junk, LF>> \o BadTypeLine \o <<LF, LF>>,
      present |-> TRUE],
     [content |-> OldLine \o <<LF, LBrace, Member("model_id", JStr("cut"))>>,
      present |-> TRUE],
     [content |-> OldLine, present |-> TRUE],
     [content |-> <<Blob(MaxScanTokenSize), LF>> \o OldLine \o <<LF>>, present |-> TRUE],
     [content |-> <<Blob(MaxScanTokenSize - 1), LF>> \o OldLine \o <<LF>>, present |-> TRUE]}

HistInit ==
    /\ \E sd \in SeedFiles : file = sd.content /\ exists = sd.present
    /\ hist = [op |-> "none", err |-> "nil", rows |-> <<>>, report |-> NoReport,
               before |-> <<>>, existedBefore |-> FALSE, appends |-> 0,
               stage |-> 0, baseRows |-> <<>>, baseErr |-> "nil"]

\* one call of AppendHistory.  stage counts the steps of the sequence
\* LoadHistory, successful AppendHistory, LoadHistory
AppendHistoryCall(report, openFails, failAt, cut) ==
    /\ hist.appends < MaxAppends
    /\ failAt \in 0..Len(report.Models)
    /\ cut = 0 <=> failAt = 0
    /\ LET r == AppendHistory(file, exists, report, openFails, failAt, cut)
       IN  /\ file' = r.content
           /\ exists' = r.present
           /\ hist' = [hist EXCEPT !.op = "append", !.err = r.err, !.rows = <<>>,
                                   !.report = report, !.before = file,
                                   !.existedBefore = exists,
                                   !.appends = @ + 1,
                                   !.stage = IF hist.stage = 1 /\ r.err = "nil"
                                             THEN 2 ELSE 0,
                                   !.baseRows = IF hist.stage = 1 /\ r.err = "nil"
                                                THEN hist.rows ELSE <<>>,
                                   !.baseErr = IF hist.stage = 1 /\ r.err = "nil"
                                               THEN hist.err ELSE "nil"]

\* one call of LoadHistory
LoadHistoryCall(openFails) ==
    /\ hist.op # "load"
    /\ openFails => exists
    /\ LET r == LoadHistory(file, exists, openFails)
       IN  hist' = [hist EXCEPT !.op = "load", !.err = r.err, !.rows = r.rows,
                                !.stage = IF r.err = "open history file" THEN 0
                                          ELSE IF hist.stage = 2 THEN 3 ELSE 1]
    /\ UNCHANGED <<file, exists>>

InitHist == ScoreIdle /\ SumIdle /\ HistInit /\ LaterIdle

NextHist ==
    \/ \E report \in ReportPool, openFails \in BOOLEAN, failAt \in 0..2,
          cut \in PartialCuts \cup {0} :
           AppendHistoryCall(report, openFails, failAt, cut)
               /\ UNCHANGED <<scoreVars, sumVars, laterVars>>
    \/ \E openFails \in BOOLEAN :
           LoadHistoryCall(openFails) /\ UNCHANGED <<scoreVars, sumVars, laterVars>>

SpecHist == InitHist /\ [][NextHist]_vars

-----------------------------------------------------------------------------
(* The claims about the history file.                                      *)

IsPrefix(a, b) == Len(a) <= Len(b) /\ SubSeq(b, 1, Len(a)) = a

\* equality of two RunRecords field by field: instants by Time.Equal,
\* float64s as numbers
RecordEqual(a, b) ==
    /\ TimeEqual(a.GeneratedAt, b.GeneratedAt)
    /\ a.DatasetPath = b.DatasetPath
    /\ FracEq(a.RecallThreshold, b.RecallThreshold)
    /\ a.ModelID = b.ModelID
    /\ a.CaseCount = b.CaseCount
    /\ FracEq(a.AverageRecall, b.AverageRecall)
    /\ FracEq(a.AverageCoverage, b.AverageCoverage)
    /\ a.Contradictions = b.Contradictions
    /\ FracEq(a.FormatPassRate, b.FormatPassRate)
    /\ a.OverallPass = b.OverallPass

\* the pieces the last AppendHistory call added
Added == SubSeq(file, Len(hist.before) + 1, Len(file))

\* C8: the content of the file before an AppendHistory call is a prefix of
\* its content after the call, whether the call fails or not; a call that
\* returns no error leaves the file in existence and adds one line per model
\* of the report, each an object of the model's record ended by a line
\* feed, in the order of the report, and nothing else.
Thm_C8_AppendOnly ==
    hist.op = "append" =>
        /\ IsPrefix(hist.before, file)
        /\ hist.err = "nil" =>
               LET K == Len(hist.report.Models)
                   feeds == {i \in 1..Len(Added) : Added[i] = LF}
                   LineEnding(i) ==
                       SubSeq(Added,
                              1 + (IF \E j \in feeds : j < i
                                   THEN CHOOSE j \in feeds :
                                            j < i /\ \A l \in feeds : l < i => l <= j
                                   ELSE 0),
                              i - 1)
                   Rank(i) == Cardinality({j \in feeds : j <= i})
               IN  /\ exists
                   /\ Cardinality(feeds) = K
                   /\ Added = <<>> \/ Added[Len(Added)] = LF
                   /\ \A i \in feeds :
                          /\ Unmarshal(LineEnding(i)).ok
                          /\ RecordEqual(Unmarshal(LineEnding(i)).rec,
                                         RunRecord(hist.report, hist.report.Models[Rank(i)]))

\* the second call in a row, adding the lines of two models to a file that
\* the first call created
Wit_C8_TwoLinesAdded ==
    /\ hist.op = "append" /\ hist.err = "nil" /\ hist.appends = 2
    /\ Len(hist.report.Models) = 2
    /\ hist.before # <<>> /\ IsPrefix(SubSeq(hist.before, 1, 1), <<LBrace>>)
    /\ Len(file) = Len(hist.before) + 26

\* C9 as claimed: LoadHistory, an AppendHistory of a report with K models
\* that returns no error, and LoadHistory again: the second load returns K
\* records more than the first, and the K new records equal, in report
\* order, the RunRecords of the report's models field for field.
Orig_C9_AppendThenLoad ==
    hist.stage = 3 =>
        LET K == Len(hist.report.Models)
            n == Len(hist.baseRows)
        IN  /\ hist.err = "nil"
            /\ Len(hist.rows) = n + K
            /\ \A i \in 1..K :
                   RecordEqual(hist.rows[n + i],
                               RunRecord(hist.report, hist.report.Models[i]))

\* the records of the lines of a file that are not blank and parse, in the
\* order of the file, from the line that starts at piece number start
RECURSIVE ParsableFrom(_, _)
ParsableFrom(content, start) ==
    IF start > Len(content) THEN <<>>
    ELSE LET stop == IF \E i \in start..Len(content) : content[i] = LF
                     THEN CHOOSE i \in start..Len(content) :
                              /\ content[i] = LF
                              /\ \A j \in start..(i - 1) : content[j] # LF
                     ELSE Len(content) + 1
             line == TrimLine(SubSeq(content, start, stop - 1))
         IN  (IF line # <<>> /\ Unmarshal(line).ok THEN <<Unmarshal(line).rec>> ELSE <<>>)
                 \o ParsableFrom(content, stop + 1)

\* C10 as claimed: LoadHistory of a file it can open never returns an error
\* whatever the lines hold; it returns the records of the lines that parse,
\* in file order, skipping the blank and the unparsable ones, and returns
\* no record and no error when the file does not exist.
Orig_C10_LoadNeverFailsOnContent ==
    (hist.op = "load" /\ hist.err # "open history file") =>
        /\ hist.err = "nil"
        /\ hist.rows = IF exists THEN ParsableFrom(file, 1) ELSE <<>>

-----------------------------------------------------------------------------
(* Two processes inside AppendHistory on the same history file.  Each      *)
(* process opens the file with O_APPEND (history.go:43) and then hands one *)
(* line per model to the kernel, a write at a time (history.go:63): a      *)
(* write on an O_APPEND descriptor puts its bytes at the end of the file   *)
(* as one step, and a step of the other process may come between any two   *)
(* writes.  A write that fails has stored the first cut pieces of its line. *)

Procs == {1, 2}

ConcInit ==
    /\ \E sd \in SeedFiles : file = sd.content /\ exists = sd.present
    /\ hist = 0
    /\ \E r1 \in ReportPool, r2 \in ReportPool :
          conc = [procs |-> [p \in Procs |->
                               [report |-> IF p = 1 THEN r1 ELSE r2,
                                state |-> "start", next |-> 1, err |-> "nil"]],
                  before |-> file,
                  written |-> <<>>,
                  load |-> [done |-> FALSE, rows |-> <<>>, err |-> "nil"]]

\* f, err := os.OpenFile(path, O_CREATE|O_WRONLY|O_APPEND, 0o644)
ConcOpen(p, openFails) ==
    /\ conc.procs[p].state = "start"
    /\ IF openFails
       THEN /\ conc' = [conc EXCEPT !.procs[p].state = "returned",
                                    !.procs[p].err = "open history file"]
            /\ UNCHANGED <<file, exists>>
       ELSE /\ conc' = [conc EXCEPT !.procs[p].state = "open"]
            /\ exists' = TRUE
            /\ UNCHANGED file
    /\ UNCHANGED hist

\* one pass of the loop over report.Models: enc.Encode(rec)
ConcEncode(p, cut) ==
    LET me == conc.procs[p]
        rec == RunRecord(me.report, me.report.Models[me.next])
        m == Marshal(rec)
    IN  /\ me.state = "open"
        /\ me.next <= Len(me.report.Models)
        /\ IF ~m.ok
           THEN /\ cut = 0
                /\ conc' = [conc EXCEPT !.procs[p].state = "returned",
                                        !.procs[p].err = "append history record"]
                /\ UNCHANGED file
           ELSE IF cut > 0
           THEN /\ conc' = [conc EXCEPT !.procs[p].state = "returned",
                                        !.procs[p].err = "append history record"]
                /\ file' = writeAppend(file, SubSeq(m.bytes, 1, cut))
           ELSE /\ conc' = [conc EXCEPT !.procs[p].next = @ + 1,
                                        !.written = Append(@, rec)]
                /\ file' = writeAppend(file, m.bytes)
        /\ UNCHANGED <<exists, hist>>

\* the loop is over: return nil
ConcReturn(p) ==
    /\ conc.procs[p].state = "open"
    /\ conc.procs[p].next > Len(conc.procs[p].report.Models)
    /\ conc' = [conc EXCEPT !.procs[p].state = "returned"]
    /\ UNCHANGED <<file, exists, hist>>

\* LoadHistory once both calls have returned
ConcLoad ==
    /\ \A p \in Procs : conc.procs[p].state = "returned"
    /\ ~conc.load.done
    /\ LET r == LoadHistory(file, exists, FALSE)
       IN  conc' = [conc EXCEPT !.load = [done |-> TRUE, rows |-> r.rows, err |-> r.err]]
    /\ UNCHANGED <<file, exists, hist>>

InitConc ==
    ScoreIdle /\ SumIdle /\ ConcInit /\ BoardIdle /\ DataIdle /\ ParseIdle /\ CmdIdle

NextConc ==
    \/ \E p \in Procs, openFails \in BOOLEAN :
           ConcOpen(p, openFails) /\ UNCHANGED <<cmdVars, scoreVars, sumVars, board, data, parse>>
    \/ \E p \in Procs, cut \in PartialCuts \cup {0} :
           ConcEncode(p, cut) /\ UNCHANGED <<cmdVars, scoreVars, sumVars, board, data, parse>>
    \/ \E p \in Procs :
           ConcReturn(p) /\ UNCHANGED <<cmdVars, scoreVars, sumVars, board, data, parse>>
    \/ ConcLoad /\ UNCHANGED <<cmdVars, scoreVars, sumVars, board, data, parse>>

SpecConc == InitConc /\ [][NextConc]_vars

-----------------------------------------------------------------------------
(* The claim about concurrent appends.                                     *)

\* the lines of a file: the pieces between line feeds, and those after the
\* last line feed when there are any
RECURSIVE LinesOf(_)
LinesOf(content) ==
    IF content = <<>> THEN <<>>
    ELSE LET feeds == {i \in 1..Len(content) : content[i] = LF}
             stop == IF feeds = {} THEN Len(content) + 1
                     ELSE CHOOSE i \in feeds : \A j \in feeds : i <= j
         IN  <<SubSeq(content, 1, stop - 1)>>
                 \o LinesOf(SubSeq(content, stop + 1, Len(content)))

\* the line json.Encoder writes for a record, without its line feed
LineOfRecord(rec) == SubSeq(Marshal(rec).bytes, 1, Len(Marshal(rec).bytes) - 1)

CountEqual(rows, rec) == Cardinality({j \in 1..Len(rows) : RecordEqual(rows[j], rec)})

BothReturnedNil ==
    \A p \in Procs : conc.procs[p].state = "returned" /\ conc.procs[p].err = "nil"

\* C11 (as stated): when both AppendHistory calls have returned nil, in every
\* interleaving of their writes the lines they added are, one for one and in
\* the order of the writes, the complete lines of the records written, and a
\* LoadHistory afterwards succeeds and returns every one of these records.
Orig_C11_ConcurrentAppendsKeepLines ==
    BothReturnedNil =>
        LET lines == LinesOf(file)
            n == Len(conc.written)
        IN  /\ Len(lines) >= n
            /\ \A k \in 1..n :
                  lines[Len(lines) - n + k] = LineOfRecord(conc.written[k])
            /\ conc.load.done =>
                  /\ conc.load.err = "nil"
                  /\ \A k \in 1..n :
                        CountEqual(conc.load.rows, conc.written[k])
                            >= CountEqual(conc.written, conc.written[k])

-----------------------------------------------------------------------------
(* float64 arithmetic, bit for bit.  A natural number of any size is a     *)
(* sequence of limbs below LimbBase, least significant first.  A float64   *)
(* that is zero or positive and normal is [man, exp], standing for         *)
(* man * 2^exp with man a number of exactly F64Bits bits (zero: man = <<>>, *)
(* exp = 0); every result is rounded to nearest, ties to even, as the      *)
(* hardware does.  The leaderboard only meets such values: recalls,        *)
(* coverages, rates and thresholds are never negative.                     *)

F64Bits == 53
LimbBits == 15
LimbBase == 2^LimbBits

MaxOf(S) == CHOOSE x \in S : \A y \in S : y <= x

BigTrim(a) ==
    LET nz == {i \in 1..Len(a) : a[i] # 0}
    IN  IF nz = {} THEN <<>> ELSE SubSeq(a, 1, MaxOf(nz))

BigOfNat(n) ==
    BigTrim(<<n % LimbBase, (n \div LimbBase) % LimbBase, n \div (LimbBase * LimbBase)>>)

Limb(a, i) == IF i \in 1..Len(a) THEN a[i] ELSE 0

RECURSIVE BigAddFrom(_, _, _, _)
BigAddFrom(a, b, i, carry) ==
    IF i > Len(a) /\ i > Len(b)
    THEN (IF carry = 0 THEN <<>> ELSE <<carry>>)
    ELSE <<(Limb(a, i) + Limb(b, i) + carry) % LimbBase>>
             \o BigAddFrom(a, b, i + 1, (Limb(a, i) + Limb(b, i) + carry) \div LimbBase)

BigAdd(a, b) == BigAddFrom(a, b, 1, 0)

\* a - b for a >= b
RECURSIVE BigSubFrom(_, _, _, _)
BigSubFrom(a, b, i, borrow) ==
    IF i > Len(a) THEN <<>>
    ELSE <<(Limb(a, i) - Limb(b, i) - borrow + LimbBase) % LimbBase>>
             \o BigSubFrom(a, b, i + 1,
                           IF Limb(a, i) - Limb(b, i) - borrow < 0 THEN 1 ELSE 0)

BigSub(a, b) == BigTrim(BigSubFrom(a, b, 1, 0))

BigLess(a, b) ==
    LET n == IF Len(a) > Len(b) THEN Len(a) ELSE Len(b)
        diff == {i \in 1..n : Limb(a, i) # Limb(b, i)}
    IN  diff # {} /\ Limb(a, MaxOf(diff)) < Limb(b, MaxOf(diff))

\* a * k for 0 < k <= LimbBase
RECURSIVE BigMulFrom(_, _, _, _)
BigMulFrom(a, k, i, carry) ==
    IF i > Len(a) THEN (IF carry = 0 THEN <<>> ELSE <<carry>>)
    ELSE <<(a[i] * k + carry) % LimbBase>>
             \o BigMulFrom(a, k, i + 1, (a[i] * k + carry) \div LimbBase)

BigMulSmall(a, k) == BigMulFrom(a, k, 1, 0)

\* quotient and remainder of a by k, 0 < k <= LimbBase, from the top limb down
RECURSIVE BigDivFrom(_, _, _, _)
BigDivFrom(a, k, i, rem) ==
    IF i = 0 THEN [quot |-> <<>>, rem |-> rem]
    ELSE LET cur == rem * LimbBase + a[i]
             low == BigDivFrom(a, k, i - 1, cur % k)
         IN  [quot |-> Append(low.quot, cur \div k), rem |-> low.rem]

BigDivSmall(a, k) ==
    LET r == BigDivFrom(a, k, Len(a), 0)
    IN  [quot |-> BigTrim(r.quot), rem |-> r.rem]

\* a * 2^s
BigShl(a, s) ==
    IF a = <<>> THEN <<>>
    ELSE [i \in 1..(s \div LimbBits) |-> 0] \o BigMulSmall(a, 2^(s % LimbBits))

\* floor(a / 2^s)
BigShr(a, s) ==
    IF s \div LimbBits >= Len(a) THEN <<>>
    ELSE BigDivSmall(SubSeq(a, s \div LimbBits + 1, Len(a)), 2^(s % LimbBits)).quot

BitLen(n) == CHOOSE k \in 0..LimbBits : n < 2^k /\ (k = 0 \/ n >= 2^(k - 1))

BigBitLen(a) ==
    IF BigTrim(a) = <<>> THEN 0
    ELSE LimbBits * (Len(BigTrim(a)) - 1) + BitLen(BigTrim(a)[Len(BigTrim(a))])

F64Zero == [man |-> <<>>, exp |-> 0]

\* the float64 nearest to (n + f) * 2^e, where 0 <= f < 1 and f > 0 exactly
\* when sticky, for n with more than F64Bits bits or not sticky
roundToF64(n, e, sticky) ==
    LET len == BigBitLen(n)
        s == len - F64Bits
    IN  IF len = 0 THEN F64Zero
        ELSE IF s <= 0 THEN [man |-> BigShl(BigTrim(n), 0 - s), exp |-> e + s]
        ELSE LET q == BigShr(n, s)
                 r == BigSub(n, BigShl(q, s))
                 half == BigShl(<<1>>, s - 1)
                 up == \/ BigLess(half, r)
                       \/ r = half /\ (sticky \/ q[1] % 2 = 1)
                 m == IF up THEN BigAdd(q, <<1>>) ELSE q
             IN  IF BigBitLen(m) > F64Bits
                 THEN [man |-> BigShr(m, 1), exp |-> e + s + 1]
                 ELSE [man |-> m, exp |-> e + s]

\* the next LimbBits bits of the binary fraction rem/d, for rem < d < 2^30
RECURSIVE fractionLimb(_, _, _, _)
fractionLimb(rem, d, k, acc) ==
    IF k = 0 THEN [q |-> acc, rem |-> rem]
    ELSE IF 2 * rem >= d THEN fractionLimb(2 * rem - d, d, k - 1, 2 * acc + 1)
    ELSE fractionLimb(2 * rem, d, k - 1, 2 * acc)

\* limbs of floor(n/d * LimbBase^k) for growing k, until the quotient has
\* F64Bits + 2 bits or more
RECURSIVE quotientLimbs(_, _, _, _)
quotientLimbs(acc, rem, d, k) ==
    IF BigBitLen(acc) >= F64Bits + 2 THEN [n |-> acc, rem |-> rem, k |-> k]
    ELSE LET f == fractionLimb(rem, d, LimbBits, 0)
         IN  quotientLimbs(<<f.q>> \o acc, f.rem, d, k + 1)

\* strconv.ParseFloat of a number whose value is fr.num/fr.den, and the
\* float64 quotient of two integers
nearestF64(fr) ==
    IF fr.num = 0 THEN F64Zero
    ELSE LET q == quotientLimbs(BigOfNat(fr.num \div fr.den), fr.num % fr.den, fr.den, 0)
         IN  roundToF64(q.n, 0 - LimbBits * q.k, q.rem # 0)

F64Less(x, y) ==
    LET e == IF x.exp < y.exp THEN x.exp ELSE y.exp
    IN  BigLess(BigShl(x.man, x.exp - e), BigShl(y.man, y.exp - e))

\* x + y
F64Add(x, y) ==
    LET e == IF x.exp < y.exp THEN x.exp ELSE y.exp
    IN  IF x.man = <<>> THEN y
        ELSE IF y.man = <<>> THEN x
        ELSE roundToF64(BigAdd(BigShl(x.man, x.exp - e), BigShl(y.man, y.exp - e)), e, FALSE)

\* math.Abs(x - y)
F64AbsDiff(x, y) ==
    LET e == IF x.exp < y.exp THEN x.exp ELSE y.exp
        a == BigShl(x.man, x.exp - e)
        b == BigShl(y.man, y.exp - e)
    IN  IF x.man = <<>> THEN y
        ELSE IF y.man = <<>> THEN x
        ELSE roundToF64(IF BigLess(a, b) THEN BigSub(b, a) ELSE BigSub(a, b), e, FALSE)

\* x / float64(k) for an integer 0 < k < 2^12
F64DivInt(x, k) ==
    LET d == BigDivSmall(BigShl(x.man, LimbBits), k)
    IN  IF x.man = <<>> THEN F64Zero
        ELSE roundToF64(d.quot, x.exp - LimbBits, d.rem # 0)

-----------------------------------------------------------------------------
(* The records FilterHistory and BuildLeaderboard are run on.  In a        *)
(* RunRecord a fraction stands for the float64 nearest to it, which F64    *)
(* gives: from a table for the fractions of these records, computed once.  *)

MaxRecords == 3

Time1Local == [unix |-> 1, offset |-> LocalOffset, loc |-> "Local", mono |-> 0]

BoardRecord(model, path, threshold, recall, coverage, contradictions, pass, tm) ==
    [GeneratedAt |-> tm, DatasetPath |-> path, RecallThreshold |-> threshold,
     ModelID |-> model, CaseCount |-> 1, AverageRecall |-> recall,
     AverageCoverage |-> coverage, Contradictions |-> contradictions,
     FormatPassRate |-> Frac(1, 1), OverallPass |-> pass]

\* the records FilterHistory is run on: paths that clean to d1 and paths
\* that do not; thresholds equal to 0.9, 1e-10 below it, above it by a
\* little less than 1e-9 (as float64s) and by 2e-9; 1e-9 itself, against
\* the target 0
FilterRecordPool ==
    {BoardRecord("m1", "d1", Frac(9, 10), Frac(1, 1), Frac(1, 1), 0, TRUE, Time1),
     BoardRecord("m2", "./d1", Frac(9, 10), Frac(1, 1), Frac(1, 1), 0, TRUE, Time1),
     BoardRecord("m3", " d1/ ", Frac(9, 10), Frac(1, 1), Frac(1, 1), 0, TRUE, Time1),
     BoardRecord("m3", "a/../d1", Frac(899999999, 999999999), Frac(1, 1), Frac(1, 1), 0, TRUE, Time1),
     BoardRecord("m3", "d1", Frac(900000001, 10^9), Frac(1, 1), Frac(1, 1), 0, TRUE, Time1),
     BoardRecord("m3", "/d1", Frac(9, 10), Frac(1, 1), Frac(1, 1), 0, TRUE, Time1),
     BoardRecord("m3", "d1//", Frac(900000002, 10^9), Frac(1, 1), Frac(1, 1), 0, TRUE, Time1),
     BoardRecord("m3", "d2", Frac(9, 10), Frac(1, 1), Frac(1, 1), 0, TRUE, Time1),
     BoardRecord("m3", "", Frac(1, 10^9), Frac(1, 1), Frac(1, 1), 0, TRUE, Time1)}

\* the records BuildLeaderboard is run on: runs of three models of one
\* dataset and threshold
BoardRecordPool ==
    {BoardRecord("m1", "d1", Frac(9, 10), Frac(1, 10), Frac(1, 2), 0, FALSE, Time1),
     BoardRecord("m1", "d1", Frac(9, 10), Frac(1, 2), Frac(1, 1), 1, TRUE, Time2),
     BoardRecord("m2", "d1", Frac(9, 10), Frac(1, 10), Frac(1, 2), 0, FALSE, Time1Local),
     BoardRecord("m2", "d1", Frac(9, 10), Frac(1, 1), Frac(0, 1), 2, TRUE, Time2),
     BoardRecord("m3", "d1", Frac(9, 10), Frac(7, 10), Frac(1, 1), 0, TRUE, ZeroTime),
     BoardRecord("m3", "d1", Frac(9, 10), Frac(1, 1), Frac(1, 1), 0, TRUE, Time1)}

\* (datasetPath, recallThreshold) of the FilterHistory calls tried
FilterTargets ==
    {<<"d1", Frac(9, 10)>>, <<" ./d1/", Frac(9, 10)>>, <<"", Frac(0, 1)>>}

\* the fractions of the records and targets, and the pass rates
KnownFractions ==
    UNION {{r.RecallThreshold, r.AverageRecall, r.AverageCoverage} :
              r \in FilterRecordPool \cup BoardRecordPool}
        \cup {tg[2] : tg \in FilterTargets}
        \cup {Frac(k, n) : k \in 0..(MaxRecords + 1), n \in 1..(MaxRecords + 1)}

F64Table == Table([fr \in KnownFractions |-> nearestF64(fr)])

F64(fr) == IF fr \in KnownFractions THEN F64Table[fr] ELSE nearestF64(fr)

-----------------------------------------------------------------------------
(* history.go: FilterHistory.                                              *)

\* the pieces of s between the slashes
SplitPath(s) ==
    LET cuts == {0, Len(s) + 1} \cup {i \in 1..Len(s) : CharAt(s, i) = "/"}
        starts == cuts \ {Len(s) + 1}
        nth(k) == CHOOSE i \in starts : Cardinality({j \in starts : j < i}) = k - 1
        endOf(i) == CHOOSE j \in cuts : j > i /\ \A x \in cuts : x > i => j <= x
    IN  [k \in 1..Cardinality(starts) |-> SubSeq(s, nth(k) + 1, endOf(nth(k)) - 1)]

\* filepath.Clean's pass over one path element
cleanElement(kept, elem, rooted) ==
    IF elem = "" \/ elem = "." THEN kept
    ELSE IF elem # ".." THEN Append(kept, elem)
    ELSE IF kept # <<>> /\ kept[Len(kept)] # ".." THEN SubSeq(kept, 1, Len(kept) - 1)
    ELSE IF rooted THEN kept
    ELSE Append(kept, "..")

RECURSIVE cleanFrom(_, _, _, _)
cleanFrom(elems, i, kept, rooted) ==
    IF i > Len(elems) THEN kept
    ELSE cleanFrom(elems, i + 1, cleanElement(kept, elems[i], rooted), rooted)

cleanJoined(joined, rooted) ==
    IF rooted THEN "/" \o joined ELSE IF joined = "" THEN "." ELSE joined

\* filepath.Clean with / as the separator
Clean(path) ==
    IF path = "" THEN "."
    ELSE cleanJoined(Join(cleanFrom(SplitPath(path), 1, <<>>, CharAt(path, 1) = "/"), "/"),
                     CharAt(path, 1) = "/")

\* const epsilon = 1e-9
Epsilon == F64(Frac(1, 10^9))

\* keptByFilter with the difference compared by >= instead of >
keptByFilterStrict(r, targetDataset, threshold) ==
    /\ Clean(TrimSpace(r.DatasetPath)) = targetDataset
    /\ F64Less(F64AbsDiff(F64(r.RecallThreshold), F64(threshold)), Epsilon)

\* the tests of the loop of FilterHistory on record r
keptByFilter(r, targetDataset, threshold) ==
    /\ Clean(TrimSpace(r.DatasetPath)) = targetDataset
    /\ ~F64Less(Epsilon, F64AbsDiff(F64(r.RecallThreshold), F64(threshold)))

RECURSIVE filterFrom(_, _, _, _)
filterFrom(records, i, targetDataset, threshold) ==
    IF i > Len(records) THEN <<>>
    ELSE (IF keptByFilter(records[i], targetDataset, threshold)
          THEN <<records[i]>> ELSE <<>>)
             \o filterFrom(records, i + 1, targetDataset, threshold)

FilterHistory(records, datasetPath, threshold) ==
    IF Len(records) = 0 THEN <<>>
    ELSE filterFrom(records, 1, Clean(TrimSpace(datasetPath)), threshold)

-----------------------------------------------------------------------------
(* history.go: BuildLeaderboard.  The rows are built in the order in which *)
(* range yields the keys of byModel, which Go leaves open: order is that   *)
(* order.  sort.Slice sorts fewer than 13 rows by insertion.               *)

\* Time.After
TimeAfter(a, b) == a.unix > b.unix

ZeroAgg ==
    [runs |-> 0, recall |-> F64Zero, bestRecall |-> F64Zero, coverage |-> F64Zero,
     contradictions |-> 0, passes |-> 0, lastSeen |-> ZeroTime]

\* bestRecall after a run with average recall x
higherRecall(best, x) == IF F64Less(best, x) THEN x ELSE best

\* addRun with lastSeen set by every run, not only by a later one
addRunLastRead(a, r) ==
    [runs |-> a.runs + 1,
     recall |-> F64Add(a.recall, F64(r.AverageRecall)),
     bestRecall |-> higherRecall(a.bestRecall, F64(r.AverageRecall)),
     coverage |-> F64Add(a.coverage, F64(r.AverageCoverage)),
     contradictions |-> a.contradictions + r.Contradictions,
     passes |-> a.passes + (IF r.OverallPass THEN 1 ELSE 0),
     lastSeen |-> r.GeneratedAt]

\* one pass of the loop over records, on the aggregate a of r's model
addRun(a, r) ==
    [runs |-> a.runs + 1,
     recall |-> F64Add(a.recall, F64(r.AverageRecall)),
     bestRecall |-> higherRecall(a.bestRecall, F64(r.AverageRecall)),
     coverage |-> F64Add(a.coverage, F64(r.AverageCoverage)),
     contradictions |-> a.contradictions + r.Contradictions,
     passes |-> a.passes + (IF r.OverallPass THEN 1 ELSE 0),
     lastSeen |-> IF TimeAfter(r.GeneratedAt, a.lastSeen) THEN r.GeneratedAt ELSE a.lastSeen]

\* byModel after the records from number i on
RECURSIVE aggregateFrom(_, _, _)
aggregateFrom(records, i, byModel) ==
    IF i > Len(records) THEN byModel
    ELSE aggregateFrom(records, i + 1,
            IF records[i].ModelID \in DOMAIN byModel
            THEN [byModel EXCEPT ![records[i].ModelID] = addRun(@, records[i])]
            ELSE byModel @@ (records[i].ModelID :> addRun(ZeroAgg, records[i])))

LeaderboardRow(model, a) ==
    [ModelID |-> model,
     Runs |-> a.runs,
     AverageRecall |-> F64DivInt(a.recall, a.runs),
     BestRecall |-> a.bestRecall,
     AverageCoverage |-> F64DivInt(a.coverage, a.runs),
     TotalContradictions |-> a.contradictions,
     OverallPassRate |-> F64(Frac(a.passes, a.runs)),
     LastSeen |-> a.lastSeen]

\* rowLess without its last key
rowLessTwoKeys(a, b) ==
    IF a.AverageRecall # b.AverageRecall THEN F64Less(b.AverageRecall, a.AverageRecall)
    ELSE F64Less(b.BestRecall, a.BestRecall)

\* the less function handed to sort.Slice
rowLess(a, b) ==
    IF a.AverageRecall # b.AverageRecall THEN F64Less(b.AverageRecall, a.AverageRecall)
    ELSE IF a.BestRecall # b.BestRecall THEN F64Less(b.BestRecall, a.BestRecall)
    ELSE a.Runs > b.Runs

\* insertion sort: row x moves down past every row it is less than
insertRow(sorted, x) ==
    LET stay == {j \in 1..Len(sorted) : ~rowLess(x, sorted[j])}
        at == IF stay = {} THEN 0 ELSE MaxOf(stay)
    IN  SubSeq(sorted, 1, at) \o <<x>> \o SubSeq(sorted, at + 1, Len(sorted))

RECURSIVE sortRowsFrom(_, _, _)
sortRowsFrom(rows, i, sorted) ==
    IF i > Len(rows) THEN sorted
    ELSE sortRowsFrom(rows, i + 1, insertRow(sorted, rows[i]))

\* the rows of byModel in the order the keys are ranged over, sorted
rowsInOrder(byModel, order) ==
    sortRowsFrom([k \in 1..Len(order) |-> LeaderboardRow(order[k], byModel[order[k]])],
                 1, <<>>)

\* the keys of byModel
modelIDs(records) == {records[i].ModelID : i \in 1..Len(records)}

\* whether range may yield the keys of byModel in this order
IsRangeOrder(order, records) ==
    /\ Len(order) = Cardinality(modelIDs(records))
    /\ {order[k] : k \in 1..Len(order)} = modelIDs(records)

BuildLeaderboard(records, order) ==
    rowsInOrder(aggregateFrom(records, 1, <<>>), order)

-----------------------------------------------------------------------------
(* The leaderboard driver: FilterHistory on a list of records, then again  *)
(* on its own result; BuildLeaderboard on the list, then once more.        *)

FilterInit ==
    /\ \E rs \in SeqsUpTo(FilterRecordPool, MaxRecords), tg \in FilterTargets :
          board = [records |-> rs, datasetPath |-> tg[1], recallThreshold |-> tg[2],
                   op |-> "input", filtered |-> <<>>, again |-> <<>>,
                   rows |-> <<>>, rowsAgain |-> <<>>]

BoardInit ==
    /\ \E rs \in SeqsUpTo(BoardRecordPool, MaxRecords) :
          board = [records |-> rs, datasetPath |-> "d1", recallThreshold |-> Frac(9, 10),
                   op |-> "input", filtered |-> <<>>, again |-> <<>>,
                   rows |-> <<>>, rowsAgain |-> <<>>]

\* filtered := FilterHistory(records, datasetPath, recallThreshold)
FilterHistoryCall ==
    /\ board.op = "input"
    /\ board' = [board EXCEPT !.op = "filtered",
                              !.filtered = FilterHistory(board.records, board.datasetPath,
                                                         board.recallThreshold)]

\* FilterHistory with the same arguments on its own result
FilterHistoryAgain ==
    /\ board.op = "filtered"
    /\ board' = [board EXCEPT !.op = "refiltered",
                              !.again = FilterHistory(board.filtered, board.datasetPath,
                                                      board.recallThreshold)]

\* rows := BuildLeaderboard(records)
BuildLeaderboardCall(order) ==
    /\ board.op = "input"
    /\ IsRangeOrder(order, board.records)
    /\ board' = [board EXCEPT !.op = "built",
                              !.rows = BuildLeaderboard(board.records, order)]

\* BuildLeaderboard once more on the same records
BuildLeaderboardAgain(order) ==
    /\ board.op = "built"
    /\ IsRangeOrder(order, board.records)
    /\ board' = [board EXCEPT !.op = "rebuilt",
                              !.rowsAgain = BuildLeaderboard(board.records, order)]

BoardModels == {r.ModelID : r \in BoardRecordPool}

InitFilter ==
    ScoreIdle /\ SumIdle /\ HistIdle /\ ConcIdle /\ FilterInit /\ DataIdle /\ ParseIdle /\ CmdIdle

NextFilter ==
    \/ FilterHistoryCall
           /\ UNCHANGED <<cmdVars, scoreVars, sumVars, histVars, conc, data, parse>>
    \/ FilterHistoryAgain
           /\ UNCHANGED <<cmdVars, scoreVars, sumVars, histVars, conc, data, parse>>

SpecFilter == InitFilter /\ [][NextFilter]_vars

InitBoard ==
    ScoreIdle /\ SumIdle /\ HistIdle /\ ConcIdle /\ BoardInit /\ DataIdle /\ ParseIdle /\ CmdIdle

NextBoard ==
    \/ \E order \in UNION {[1..n -> BoardModels] : n \in 0..Cardinality(BoardModels)} :
           BuildLeaderboardCall(order)
               /\ UNCHANGED <<cmdVars, scoreVars, sumVars, histVars, conc, data, parse>>
    \/ \E order \in UNION {[1..n -> BoardModels] : n \in 0..Cardinality(BoardModels)} :
           BuildLeaderboardAgain(order)
               /\ UNCHANGED <<cmdVars, scoreVars, sumVars, histVars, conc, data, parse>>

SpecBoard == InitBoard /\ [][NextBoard]_vars

-----------------------------------------------------------------------------
(* The claims about FilterHistory and BuildLeaderboard.                    *)

\* |x - y| as it is, not rounded to a float64
ExactAbsDiff(x, y) ==
    LET e == IF x.exp < y.exp THEN x.exp ELSE y.exp
        a == BigShl(x.man, x.exp - e)
        b == BigShl(y.man, y.exp - e)
    IN  [man |-> IF BigLess(a, b) THEN BigSub(b, a) ELSE BigSub(a, b), exp |-> e]

\* the records the claim has FilterHistory return
ClaimKept(r) ==
    /\ Clean(TrimSpace(r.DatasetPath)) = Clean(TrimSpace(board.datasetPath))
    /\ ~F64Less(F64(Frac(1, 10^9)),
                ExactAbsDiff(F64(r.RecallThreshold), F64(board.recallThreshold)))

\* C12: FilterHistory returns exactly the input records whose trimmed and
\* cleaned dataset path equals the trimmed and cleaned target path and whose
\* recall threshold is within 1e-9 of the target threshold, in input order;
\* applied again with the same arguments to its own output it returns that
\* output unchanged.
Thm_C12_FilterExactAndIdempotent ==
    /\ board.op \in {"filtered", "refiltered"} =>
          board.filtered = SelectSeq(board.records, ClaimKept)
    /\ board.op = "refiltered" => board.again = board.filtered

\* a second application that kept two records and had dropped a third, one
\* of the kept with a path written differently from the target and a
\* threshold that is not the target's float64
Wit_C12_KeptTwoOfThree ==
    /\ board.op = "refiltered"
    /\ Len(board.records) = 3
    /\ Len(board.again) = 2
    /\ \E i \in 1..2 :
          /\ board.again[i].DatasetPath # board.datasetPath
          /\ F64(board.again[i].RecallThreshold) # F64(board.recallThreshold)

Built == board.op \in {"built", "rebuilt"}

\* x > y for two float64s that are zero or positive: by exponent, then by
\* the bits
ClaimGreater(x, y) ==
    IF x.man = <<>> THEN FALSE
    ELSE IF y.man = <<>> THEN TRUE
    ELSE x.exp > y.exp \/ (x.exp = y.exp /\ BigLess(y.man, x.man))

\* row a has a strictly higher (AverageRecall, BestRecall, Runs) than row b
ClaimHigher(a, b) ==
    \/ ClaimGreater(a.AverageRecall, b.AverageRecall)
    \/ /\ a.AverageRecall = b.AverageRecall
       /\ \/ ClaimGreater(a.BestRecall, b.BestRecall)
          \/ a.BestRecall = b.BestRecall /\ a.Runs > b.Runs

ClaimSorted(rows) ==
    \A i, j \in 1..Len(rows) : i < j => ~ClaimHigher(rows[j], rows[i])

\* C13: the rows BuildLeaderboard returns are sorted by average recall
\* descending, then best recall descending, then run count descending: no
\* row has a strictly higher (AverageRecall, BestRecall, Runs) than a row
\* before it.
Thm_C13_RowsSorted ==
    /\ Built => ClaimSorted(board.rows)
    /\ board.op = "rebuilt" => ClaimSorted(board.rowsAgain)

\* two rows equal in average and best recall, put in order by run count
Wit_C13_OrderedByRuns ==
    /\ Built
    /\ Len(board.rows) = 2
    /\ board.rows[1].AverageRecall = board.rows[2].AverageRecall
    /\ board.rows[1].BestRecall = board.rows[2].BestRecall
    /\ board.rows[1].Runs > board.rows[2].Runs

\* C14 (as stated): BuildLeaderboard applied twice to the same records
\* returns the same rows in the same order, ties on all three keys included.
Orig_C14_SameOrderTwice ==
    board.op = "rebuilt" => board.rowsAgain = board.rows

RunsOf(model) == {i \in 1..Len(board.records) : board.records[i].ModelID = model}

RECURSIVE SumOver(_, _)
SumOver(S, f) ==
    IF S = {} THEN 0
    ELSE LET x == CHOOSE y \in S : TRUE IN f[x] + SumOver(S \ {x}, f)

\* what the claim says of the row of one model, BestRecall >= AverageRecall
\* left aside
ClaimRow(row) ==
    LET runs == RunsOf(row.ModelID)
        recalls == {F64(board.records[i].AverageRecall) : i \in runs}
    IN  /\ runs # {}
        /\ row.Runs = Cardinality(runs)
        /\ row.BestRecall \in recalls
        /\ \A x \in recalls : ~ClaimGreater(x, row.BestRecall)
        /\ row.TotalContradictions
               = SumOver(runs, [i \in runs |-> board.records[i].Contradictions])
        /\ row.OverallPassRate
               = nearestF64(Frac(Cardinality({i \in runs : board.records[i].OverallPass}),
                                 Cardinality(runs)))
        /\ \E i \in runs : TimeEqual(board.records[i].GeneratedAt, row.LastSeen)
        /\ \A i \in runs : board.records[i].GeneratedAt.unix <= row.LastSeen.unix

ClaimRows(rows) ==
    /\ \A i, j \in 1..Len(rows) : rows[i].ModelID = rows[j].ModelID => i = j
    /\ {rows[i].ModelID : i \in 1..Len(rows)} = modelIDs(board.records)
    /\ SumOver(1..Len(rows), [i \in 1..Len(rows) |-> rows[i].Runs]) = Len(board.records)
    /\ \A i \in 1..Len(rows) : ClaimRow(rows[i])

\* C15 (as stated): one row per distinct model; Runs, BestRecall,
\* TotalContradictions, OverallPassRate and LastSeen as the claim gives
\* them, and BestRecall >= AverageRecall in every row.
Orig_C15_RowsAggregate ==
    Built =>
        /\ ClaimRows(board.rows)
        /\ \A i \in 1..Len(board.rows) :
              ~ClaimGreater(board.rows[i].AverageRecall, board.rows[i].BestRecall)

\* C15 (corrected): BuildLeaderboard returns exactly one row per distinct
\* model identifier; a row's Runs is the number of that model's records (the
\* Runs of all rows sum to the number of records), BestRecall is the maximum
\* of that model's average recalls, TotalContradictions the sum of their
\* contradictions, OverallPassRate the number of records with OverallPass
\* true divided by Runs, LastSeen the latest of their timestamps.  (That
\* BestRecall >= AverageRecall is not claimed: the float64 mean can exceed
\* the maximum by a rounding error.)
Thm_C15_RowsAggregateWithoutBound ==
    /\ Built => ClaimRows(board.rows)
    /\ board.op = "rebuilt" => ClaimRows(board.rowsAgain)

\* two rows, one of them of two runs that differ in recall, in time and in
\* OverallPass
Wit_C15_TwoRunsOfOneModel ==
    /\ Built
    /\ Len(board.rows) = 2
    /\ \E i \in 1..2 :
          /\ board.rows[i].Runs = 2
          /\ board.rows[i].TotalContradictions = 1
          /\ board.rows[i].OverallPassRate = nearestF64(Frac(1, 2))
          /\ board.rows[i].LastSeen.unix = 2
          /\ ClaimGreater(board.rows[i].BestRecall, board.rows[i].AverageRecall)


-----------------------------------------------------------------------------
(* encoding/json on text, as ParseOutput and loadGoldFile use it.  A Go    *)
(* string is a sequence of bytes; a byte above 0x7f is written as the      *)
(* character with that code.  The bytes of the model are tab, line feed,   *)
(* carriage return, the printable ASCII characters, 0xff (never part of    *)
(* valid UTF-8) and 0xef 0xbf 0xbd (the encoding of U+FFFD).  A string of   *)
(* this language cannot hold the grave accent, byte 0x60: the acute accent *)
(* stands for it wherever it occurs.                                       *)

Quote == "\""
Backslash == "\\"
AsciiPrintable ==
    " !\"#$%&'()*+,-./0123456789:;<=>?@ABCDEFGHIJKLMNOPQRSTUVWXYZ[\\]^_´abcdefghijklmnopqrstuvwxyz{|}~"
PrintableSet == CharsOf(AsciiPrintable)
ControlSet == {"\t", "\n", "\r"}
Backtick == "´"
InvalidByte == "ÿ"
ReplacementChar == "ï¿½"

MinOf(S) == CHOOSE x \in S : \A y \in S : x <= y

\* utf8.DecodeRuneInString at byte i: the number of bytes of the rune there,
\* 0 when the byte does not start valid UTF-8 (the decoder then reports
\* RuneError with width 1)
runeWidth(s, i) ==
    IF CharAt(s, i) \in PrintableSet \cup ControlSet THEN 1
    ELSE IF /\ CharAt(s, i) = "ï"
            /\ i + 2 <= Len(s)
            /\ CharAt(s, i + 1) \in {"¿", "½"}
            /\ CharAt(s, i + 2) \in {"¿", "½"}
         THEN 3
    ELSE 0

\* the code point a \uXXXX escape names
HexValue(ch) ==
    IF ch \in DigitSet THEN (CHOOSE i \in 1..10 : CharAt(DigitChars, i) = ch) - 1
    ELSE 9 + (CHOOSE i \in 1..6 : CharAt("abcdef", i) = LowerChar(ch))

IsHex(ch) == ch \in DigitSet \/ LowerChar(ch) \in CharsOf("abcdef")

getu4(s, i) ==
    IF i + 3 <= Len(s) /\ \A k \in i..(i + 3) : IsHex(CharAt(s, k))
    THEN 4096 * HexValue(CharAt(s, i)) + 256 * HexValue(CharAt(s, i + 1))
         + 16 * HexValue(CharAt(s, i + 2)) + HexValue(CharAt(s, i + 3))
    ELSE -1

\* the UTF-8 bytes of a code point of the Basic Multilingual Plane; a lone
\* surrogate becomes U+FFFD.  Other code points have bytes outside the
\* alphabet above and are not written by any input of the model.
runeBytes(code) ==
    IF code >= 32 /\ code <= 126 THEN CharAt(AsciiPrintable, code - 31)
    ELSE IF code = 9 THEN "\t"
    ELSE IF code = 10 THEN "\n"
    ELSE IF code = 13 THEN "\r"
    ELSE IF code = 65533 \/ (code >= 55296 /\ code <= 57343) THEN ReplacementChar
    ELSE CHOOSE bytes \in {} : bytes = code

\* the code point of the escape at i; a pair of surrogate escapes names a
\* code point beyond the Basic Multilingual Plane
escapedRune(s, i, hi) ==
    LET code == getu4(s, i + 2)
    IN  IF /\ code >= 55296 /\ code <= 56319
           /\ i + 11 <= hi
           /\ SubSeq(s, i + 6, i + 7) = "\\u"
           /\ getu4(s, i + 8) >= 56320 /\ getu4(s, i + 8) <= 57343
        THEN 65536 + (code - 55296) * 1024 + (getu4(s, i + 8) - 56320)
        ELSE code

EscapeChars == "\"\\/nrt"
EscapedBytes == "\"\\/\n\r\t"

\* json.unquote on the bytes lo..hi between the quotes of a literal: the
\* escapes are replaced, invalid UTF-8 becomes U+FFFD, a control character
\* or a wrong escape makes the literal invalid
RECURSIVE unquoteFrom(_, _, _, _)
unquoteFrom(s, i, hi, acc) ==
    IF i > hi THEN [ok |-> TRUE, s |-> acc]
    ELSE IF CharAt(s, i) = Backslash
    THEN IF i = hi THEN [ok |-> FALSE, s |-> ""]
         ELSE IF CharAt(s, i + 1) \in CharsOf(EscapeChars)
         THEN unquoteFrom(s, i + 2, hi,
                          acc \o CharAt(EscapedBytes,
                                        CHOOSE k \in 1..Len(EscapeChars) :
                                            CharAt(EscapeChars, k) = CharAt(s, i + 1)))
         ELSE IF CharAt(s, i + 1) \in {"b", "f"}
         THEN unquoteFrom(s, i + 2, hi, acc \o runeBytes(8))
         ELSE IF CharAt(s, i + 1) = "u" /\ i + 5 <= hi /\ getu4(s, i + 2) >= 0
         THEN unquoteFrom(s, i + 6, hi, acc \o runeBytes(escapedRune(s, i, hi)))
         ELSE [ok |-> FALSE, s |-> ""]
    ELSE IF CharAt(s, i) \in ControlSet THEN [ok |-> FALSE, s |-> ""]
    ELSE IF runeWidth(s, i) = 0 THEN unquoteFrom(s, i + 1, hi, acc \o ReplacementChar)
    ELSE unquoteFrom(s, i + runeWidth(s, i), hi,
                     acc \o SubSeq(s, i, i + runeWidth(s, i) - 1))

unquote(s, lo, hi) == unquoteFrom(s, lo, hi, "")

\* the values of the decoder
JsonNull == [t |-> "null", s |-> "", items |-> <<>>]
JsonString(str) == [t |-> "string", s |-> str, items |-> <<>>]
JsonScalar(kind) == [t |-> kind, s |-> "", items |-> <<>>]
JsonArray(items) == [t |-> "array", s |-> "", items |-> items]
JsonObject(members) == [t |-> "object", s |-> "", items |-> members]

ScanFail == [ok |-> FALSE, v |-> JsonNull, next |-> 0]
Scanned(v, next) == [ok |-> TRUE, v |-> v, next |-> next]

\* the first byte at or after i that is not JSON white space; Len(s) + 1
\* when there is none
skipSpace(s, i) ==
    LET rest == {j \in i..Len(s) : ~IsSpace(CharAt(s, j))}
    IN  IF rest = {} THEN Len(s) + 1 ELSE MinOf(rest)

\* the quote at j ends the literal opened at i: the run of backslashes
\* before it is of even length
isClosingQuote(s, i, j) ==
    /\ CharAt(s, j) = Quote
    /\ LET others == {k \in i..(j - 1) : k = i \/ CharAt(s, k) # Backslash}
       IN  (j - 1 - MaxOf(others)) % 2 = 0

scanStringTo(s, i, j) ==
    LET u == unquote(s, i + 1, j - 1)
    IN  IF u.ok THEN Scanned(JsonString(u.s), j + 1) ELSE ScanFail

\* a string literal whose opening quote is at i
scanString(s, i) ==
    LET closing == {j \in (i + 1)..Len(s) : isClosingQuote(s, i, j)}
    IN  IF closing = {} THEN ScanFail ELSE scanStringTo(s, i, MinOf(closing))

\* the end of the run of digits that starts at i (i itself when there is
\* no digit at i)
digitsEnd(s, i) ==
    LET rest == {j \in i..Len(s) : CharAt(s, j) \notin DigitSet}
    IN  IF rest = {} THEN Len(s) + 1 ELSE MinOf(rest)

\* the scanner's number states: -? (0 | [1-9][0-9]*) (. [0-9]+)? ([eE] [+-]? [0-9]+)?
\* the result is the index after the number, 0 when the text at i is none
exponentEnd(s, i) ==
    IF i <= Len(s) /\ CharAt(s, i) \in {"e", "E"}
    THEN LET d == IF i + 1 <= Len(s) /\ CharAt(s, i + 1) \in {"+", "-"} THEN i + 2 ELSE i + 1
         IN  IF digitsEnd(s, d) > d THEN digitsEnd(s, d) ELSE 0
    ELSE i

fractionEnd(s, i) ==
    IF i <= Len(s) /\ CharAt(s, i) = "."
    THEN IF digitsEnd(s, i + 1) > i + 1 THEN exponentEnd(s, digitsEnd(s, i + 1)) ELSE 0
    ELSE exponentEnd(s, i)

integerEnd(s, i) ==
    IF i > Len(s) THEN 0
    ELSE IF CharAt(s, i) = "0" THEN fractionEnd(s, i + 1)
    ELSE IF digitsEnd(s, i) > i THEN fractionEnd(s, digitsEnd(s, i))
    ELSE 0

numberEnd(s, i) == IF CharAt(s, i) = "-" THEN integerEnd(s, i + 1) ELSE integerEnd(s, i)

scanLiteral(s, i, word, kind) ==
    IF SubSeq(s, i, MinOf({Len(s), i + Len(word) - 1})) = word
    THEN Scanned(JsonScalar(kind), i + Len(word))
    ELSE ScanFail

scanNumber(s, i) ==
    IF numberEnd(s, i) = 0 THEN ScanFail ELSE Scanned(JsonScalar("number"), numberEnd(s, i))

RECURSIVE scanValue(_, _), scanElements(_, _, _), scanMembers(_, _, _)

\* after an array element: a comma and the next element, or the bracket
afterElement(s, r, acc) ==
    IF ~r.ok THEN ScanFail
    ELSE LET d == skipSpace(s, r.next)
         IN  IF d > Len(s) THEN ScanFail
             ELSE IF CharAt(s, d) = "," THEN scanElements(s, d + 1, Append(acc, r.v))
             ELSE IF CharAt(s, d) = "]" THEN Scanned(JsonArray(Append(acc, r.v)), d + 1)
             ELSE ScanFail

scanElements(s, i, acc) == afterElement(s, scanValue(s, i), acc)

\* after an object member's value: a comma and the next member, or the brace
afterMember(s, key, r, acc) ==
    IF ~r.ok THEN ScanFail
    ELSE LET d == skipSpace(s, r.next)
         IN  IF d > Len(s) THEN ScanFail
             ELSE IF CharAt(s, d) = ","
             THEN scanMembers(s, skipSpace(s, d + 1), Append(acc, <<key, r.v>>))
             ELSE IF CharAt(s, d) = "}"
             THEN Scanned(JsonObject(Append(acc, <<key, r.v>>)), d + 1)
             ELSE ScanFail

\* after an object key: the colon and the value
afterKey(s, k, acc) ==
    IF ~k.ok THEN ScanFail
    ELSE LET colon == skipSpace(s, k.next)
         IN  IF colon > Len(s) \/ CharAt(s, colon) # ":" THEN ScanFail
             ELSE afterMember(s, k.v.s, scanValue(s, colon + 1), acc)

\* the members of an object, the first byte of a key expected at i
scanMembers(s, i, acc) ==
    IF i > Len(s) \/ CharAt(s, i) # Quote THEN ScanFail
    ELSE afterKey(s, scanString(s, i), acc)

scanValueAt(s, i) ==
    IF i > Len(s) THEN ScanFail
    ELSE IF CharAt(s, i) = "{"
    THEN LET j == skipSpace(s, i + 1)
         IN  IF j <= Len(s) /\ CharAt(s, j) = "}" THEN Scanned(JsonObject(<<>>), j + 1)
             ELSE scanMembers(s, j, <<>>)
    ELSE IF CharAt(s, i) = "["
    THEN LET j == skipSpace(s, i + 1)
         IN  IF j <= Len(s) /\ CharAt(s, j) = "]" THEN Scanned(JsonArray(<<>>), j + 1)
             ELSE scanElements(s, j, <<>>)
    ELSE IF CharAt(s, i) = Quote THEN scanString(s, i)
    ELSE IF CharAt(s, i) = "t" THEN scanLiteral(s, i, "true", "bool")
    ELSE IF CharAt(s, i) = "f" THEN scanLiteral(s, i, "false", "bool")
    ELSE IF CharAt(s, i) = "n" THEN scanLiteral(s, i, "null", "null")
    ELSE IF CharAt(s, i) = "-" \/ CharAt(s, i) \in DigitSet THEN scanNumber(s, i)
    ELSE ScanFail

scanValue(s, i) == scanValueAt(s, skipSpace(s, i))

\* json.checkValid and the value read: one value, white space around it
\* and nothing else
topValue(s, r) ==
    IF r.ok /\ skipSpace(s, r.next) > Len(s) THEN r ELSE ScanFail

scanText(s) == topValue(s, scanValue(s, 1))

\* decoding into a struct whose fields are strings and slices of strings.
\* fields maps each json tag to "string" or "strings".  A key matches a
\* tag exactly or, failing that, without regard to case; null leaves the
\* field alone; a value of the wrong type leaves the field alone and makes
\* the call fail in the end (UnmarshalTypeError); later members overwrite.
fieldOf(key, fields) ==
    IF key \in DOMAIN fields THEN key
    ELSE IF ToLower(key) \in DOMAIN fields THEN ToLower(key)
    ELSE ""

\* the elements of a []string: a string sets the element, anything else
\* leaves it empty
elementString(v) == IF v.t = "string" THEN v.s ELSE ""

decodeStrings(v) == [i \in 1..Len(v.items) |-> elementString(v.items[i])]

stringsMismatch(v) == \E i \in 1..Len(v.items) : v.items[i].t \notin {"string", "null"}

decodeMember(st, key, v, fields) ==
    LET f == fieldOf(key, fields)
    IN  IF f = "" THEN st
        ELSE IF fields[f] = "string"
        THEN (IF v.t = "string" THEN [st EXCEPT !.strs[f] = v.s]
              ELSE IF v.t = "null" THEN st
              ELSE [st EXCEPT !.ok = FALSE])
        ELSE (IF v.t = "array"
              THEN [st EXCEPT !.lists[f] = decodeStrings(v),
                              !.ok = st.ok /\ ~stringsMismatch(v)]
              ELSE IF v.t = "null" THEN [st EXCEPT !.lists[f] = <<>>]
              ELSE [st EXCEPT !.ok = FALSE])

RECURSIVE decodeMembers(_, _, _, _)
decodeMembers(st, members, i, fields) ==
    IF i > Len(members) THEN st
    ELSE decodeMembers(decodeMember(st, members[i][1], members[i][2], fields),
                       members, i + 1, fields)

ZeroStruct(fields) ==
    [ok |-> TRUE,
     strs |-> [f \in {g \in DOMAIN fields : fields[g] = "string"} |-> ""],
     lists |-> [f \in {g \in DOMAIN fields : fields[g] = "strings"} |-> <<>>]]

decodeValue(r, fields) ==
    IF ~r.ok THEN [ZeroStruct(fields) EXCEPT !.ok = FALSE]
    ELSE IF r.v.t = "object" THEN decodeMembers(ZeroStruct(fields), r.v.items, 1, fields)
    ELSE IF r.v.t = "null" THEN ZeroStruct(fields)
    ELSE [ZeroStruct(fields) EXCEPT !.ok = FALSE]

\* json.Unmarshal(text, &v) for such a struct: ok is err == nil
UnmarshalText(text, fields) == decodeValue(scanText(text), fields)

-----------------------------------------------------------------------------
(* internal/eval/dataset.go: LoadDataset.                                  *)

TrimPrefix(s, p) == IF HasPrefix(s, p) THEN SubSeq(s, Len(p) + 1, Len(s)) ELSE s
TrimSuffix(s, p) == IF HasSuffix(s, p) THEN SubSeq(s, 1, Len(s) - Len(p)) ELSE s

\* the bytes of the model in ascending order; Go compares strings byte by
\* byte
ByteOrder == "\t\n\r" \o AsciiPrintable \o "½¿ïÿ"
byteRank(ch) == CHOOSE i \in 1..Len(ByteOrder) : CharAt(ByteOrder, i) = ch

StringLess(a, b) ==
    LET differ == {i \in 1..MinOf({Len(a), Len(b)}) : CharAt(a, i) # CharAt(b, i)}
    IN  IF differ = {} THEN Len(a) < Len(b)
        ELSE byteRank(CharAt(a, MinOf(differ))) < byteRank(CharAt(b, MinOf(differ)))

LeastString(S) == CHOOSE x \in S : \A y \in S : x = y \/ StringLess(x, y)

\* sort.Strings of the keys collected from a map
RECURSIVE SortStrings(_)
SortStrings(S) ==
    IF S = {} THEN <<>> ELSE <<LeastString(S)>> \o SortStrings(S \ {LeastString(S)})

\* os.ReadDir: the entries of the directory sorted by file name
ReadDir(dir) ==
    LET names == SortStrings({e.name : e \in dir.entries})
    IN  [i \in 1..Len(names) |-> CHOOSE e \in dir.entries : e.name = names[i]]

GoldFields == [id |-> "string", title |-> "string", key_insights |-> "strings"]

\* the gold files of the model
Gold01 == "{\"id\":\"zz\",\"title\":\"Units\",\"key_insights\":[\"Check units\",\" \"]}"
Gold01Truncated == "{\"id\":\"01\",\"key_insights\":[\"a\"]"
Gold01NoInsights == "{\"id\":\"01\",\"key_insights\":[]}\n"
Gold02 == "{\"key_insights\":[\"Units matter\", \" Always \"]}"
Gold02Blank == "{\"title\":\"t\",\"key_insights\":[\"\",\" \"]}"
Gold03 == "{\"id\":\"03\",\"key_insights\":[\"x\"]}"

GoldContents == {Gold01, Gold01Truncated, Gold01NoInsights, Gold02, Gold02Blank, Gold03}
GoldTable == Table([content \in GoldContents |-> UnmarshalText(content, GoldFields)])

\* json.Unmarshal(b, &g) of loadGoldFile
unmarshalGold(content) ==
    IF content \in GoldContents THEN GoldTable[content]
    ELSE UnmarshalText(content, GoldFields)

ZeroCase == [ID |-> "", Title |-> "", Source |-> "", GoldInsights |-> <<>>]

NilError == [kind |-> "nil", msg |-> "", missingGold |-> <<>>, missingSource |-> <<>>]
ErrorOf(kind, msg) == [kind |-> kind, msg |-> msg, missingGold |-> <<>>, missingSource |-> <<>>]

\* bySuffix[suffix], the zero Case when the map has no such key
caseAt(bySuffix, suffix) ==
    IF suffix \in DOMAIN bySuffix THEN bySuffix[suffix] ELSE ZeroCase

setCase(bySuffix, suffix, case) ==
    [k \in DOMAIN bySuffix \cup {suffix} |-> IF k = suffix THEN case ELSE bySuffix[k]]

loadSourceFile(e, st) ==
    LET suffix == TrimSuffix(TrimPrefix(e.name, "source_"), ".txt")
        seen == [st EXCEPT !.sourceSuffixes = @ \cup {suffix}]
    IN  IF ~e.readable THEN [seen EXCEPT !.err = ErrorOf("read", "read " \o e.name \o ": ")]
        ELSE [seen EXCEPT !.bySuffix =
                  setCase(@, suffix,
                          [caseAt(@, suffix) EXCEPT !.ID = suffix,
                                                     !.Source = TrimSpace(e.content)])]

caseID(goldID, suffix) == IF goldID # "" THEN goldID ELSE suffix

goldCase(old, g, suffix) ==
    [old EXCEPT !.ID = caseID(g.strs["id"], suffix),
                !.Title = g.strs["title"],
                !.GoldInsights = normalizeLines(g.lists["key_insights"])]

storeGold(st, e, suffix, g) ==
    IF ~g.ok THEN [st EXCEPT !.err = ErrorOf("parse", "parse " \o e.name \o ": ")]
    ELSE [st EXCEPT !.bySuffix = setCase(@, suffix, goldCase(caseAt(@, suffix), g, suffix))]

loadGoldFile(e, st) ==
    LET suffix == TrimSuffix(TrimPrefix(e.name, "gold_"), ".json")
        seen == [st EXCEPT !.goldSuffixes = @ \cup {suffix}]
    IN  IF ~e.readable THEN [seen EXCEPT !.err = ErrorOf("read", "read " \o e.name \o ": ")]
        ELSE storeGold(seen, e, suffix, unmarshalGold(e.content))

classifyEntry(e, st) ==
    IF HasPrefix(e.name, "source_") /\ HasSuffix(e.name, ".txt") THEN loadSourceFile(e, st)
    ELSE IF HasPrefix(e.name, "gold_") /\ HasSuffix(e.name, ".json") THEN loadGoldFile(e, st)
    ELSE st

\* the loop of LoadDataset over the entries, left at the first error
RECURSIVE classifyFrom(_, _, _)
classifyFrom(entries, i, st) ==
    IF i > Len(entries) \/ st.err.kind # "nil" THEN st
    ELSE IF entries[i].isDir THEN classifyFrom(entries, i + 1, st)
    ELSE classifyFrom(entries, i + 1, classifyEntry(entries[i], st))

\* the variant of missingKeys that reports only the first key it finds
missingKeysFirstOnly(have, want) ==
    IF have \ want = {} THEN <<>> ELSE <<LeastString(have \ want)>>

\* the keys of have that want lacks, sorted
missingKeys(have, want) == SortStrings(have \ want)

joinOrNone(ss) == IF Len(ss) = 0 THEN "none" ELSE Join(ss, ", ")

unmatchedError(missingGold, missingSource) ==
    [kind |-> "unmatched",
     msg |-> "dataset has unmatched files (missing gold for: " \o joinOrNone(missingGold)
             \o "; missing source for: " \o joinOrNone(missingSource) \o ")",
     missingGold |-> missingGold,
     missingSource |-> missingSource]

validatePairing(sourceSuffixes, goldSuffixes) ==
    IF /\ Len(missingKeys(sourceSuffixes, goldSuffixes)) = 0
       /\ Len(missingKeys(goldSuffixes, sourceSuffixes)) = 0
    THEN NilError
    ELSE unmatchedError(missingKeys(sourceSuffixes, goldSuffixes),
                        missingKeys(goldSuffixes, sourceSuffixes))

\* the variant of the filter of collectCases that keeps a case without
\* source text
keptCaseAnySource(case) == Len(case.GoldInsights) # 0

\* the filter of collectCases
keptCase(case) == ~(case.Source = "" \/ Len(case.GoldInsights) = 0)

\* sort.Slice by ID: insertion sort, as the library does for short slices
RECURSIVE insertCase(_, _)
insertCase(sorted, x) ==
    IF sorted = <<>> THEN <<x>>
    ELSE IF StringLess(x.ID, sorted[Len(sorted)].ID)
    THEN Append(insertCase(SubSeq(sorted, 1, Len(sorted) - 1), x), sorted[Len(sorted)])
    ELSE Append(sorted, x)

RECURSIVE sortCasesFrom(_, _, _)
sortCasesFrom(cs, i, sorted) ==
    IF i > Len(cs) THEN sorted ELSE sortCasesFrom(cs, i + 1, insertCase(sorted, cs[i]))

\* the cases of the map in the order the range statement visits its keys
RECURSIVE casesInOrder(_, _, _)
casesInOrder(bySuffix, order, i) ==
    IF i > Len(order) THEN <<>>
    ELSE (IF keptCase(bySuffix[order[i]]) THEN <<bySuffix[order[i]]>> ELSE <<>>)
         \o casesInOrder(bySuffix, order, i + 1)

sortedOrElse(sortedCases, dirName) ==
    IF Len(sortedCases) = 0
    THEN [cases |-> <<>>,
          err |-> ErrorOf("no valid pairs", "no valid source_/gold_ pairs found in " \o dirName)]
    ELSE [cases |-> sortedCases, err |-> NilError]

collectCases(bySuffix, dirName, order) ==
    sortedOrElse(sortCasesFrom(casesInOrder(bySuffix, order, 1), 1, <<>>), dirName)

EmptyLoad ==
    [bySuffix |-> <<>>, sourceSuffixes |-> {}, goldSuffixes |-> {}, err |-> NilError]

\* the state of LoadDataset after its loop over the entries
classified(dir) == classifyFrom(ReadDir(dir), 1, EmptyLoad)

afterPairing(st, pairing, dirName, order) ==
    IF st.err.kind # "nil" THEN [cases |-> <<>>, err |-> st.err]
    ELSE IF pairing.kind # "nil" THEN [cases |-> <<>>, err |-> pairing]
    ELSE collectCases(st.bySuffix, dirName, order)

afterLoop(st, dirName, order) ==
    afterPairing(st, validatePairing(st.sourceSuffixes, st.goldSuffixes), dirName, order)

\* LoadDataset(dir); order is the order in which collectCases ranges over
\* the map
LoadDataset(dir, order) ==
    IF ~dir.exists THEN [cases |-> <<>>, err |-> ErrorOf("read dataset dir", "read dataset dir: ")]
    ELSE afterLoop(classified(dir), dir.name, order)

\* the files a dataset directory of the model may hold
File(name, content) == [name |-> name, isDir |-> FALSE, readable |-> TRUE, content |-> content]
Unreadable(name) == [name |-> name, isDir |-> FALSE, readable |-> FALSE, content |-> ""]
SubDir(name) == [name |-> name, isDir |-> TRUE, readable |-> TRUE, content |-> ""]

\* for each file name, the files of that name a directory may hold (none
\* is one of the choices)
FileChoices ==
    << {File("source_01.txt", "Check units daily.\n"), File("source_01.txt", " \n\t")},
       {File("gold_01.json", Gold01), File("gold_01.json", Gold01Truncated),
        File("gold_01.json", Gold01NoInsights)},
       {File("source_02.txt", "Units matter."), Unreadable("source_02.txt")},
       {File("gold_02.json", Gold02), File("gold_02.json", Gold02Blank)},
       {File("source_03.txt", "")},
       {File("gold_03.json", Gold03)},
       {SubDir("source_09.txt")},
       {File("notes.md", "source_07.txt")} >>

DirName == "d1"

\* the sets of files with at most one file of each name, names from the
\* i-th on
RECURSIVE EntrySetsFrom(_)
EntrySetsFrom(i) ==
    IF i > Len(FileChoices) THEN {{}}
    ELSE {rest \cup one : rest \in EntrySetsFrom(i + 1),
                          one \in {{}} \cup {{f} : f \in FileChoices[i]}}

DirPool ==
    {[exists |-> TRUE, name |-> DirName, entries |-> es] : es \in EntrySetsFrom(1)}
    \cup {[exists |-> FALSE, name |-> DirName, entries |-> {}]}

SuffixOrders(keys) ==
    {order \in [1..Cardinality(keys) -> keys] : {order[i] : i \in 1..Len(order)} = keys}

DataInit ==
    \E dir \in DirPool :
        data = [dir |-> dir, op |-> "start", cases |-> <<>>, err |-> NilError]

LoadDatasetCall(order) ==
    /\ data.op = "start"
    /\ data' = [data EXCEPT !.op = "loaded",
                            !.cases = LoadDataset(data.dir, order).cases,
                            !.err = LoadDataset(data.dir, order).err]

InitData == ScoreIdle /\ SumIdle /\ HistIdle /\ ConcIdle /\ BoardIdle /\ ParseIdle /\ DataInit /\ CmdIdle

NextData ==
    \E order \in SuffixOrders(DOMAIN classified(data.dir).bySuffix) :
        LoadDatasetCall(order) /\ UNCHANGED <<cmdVars, scoreVars, sumVars, histVars, conc, board, parse>>

SpecData == InitData /\ [][NextData]_vars

-----------------------------------------------------------------------------
(* Claims about LoadDataset: what the directories of the model hold, said  *)
(* of the files themselves.                                                *)

Loaded == data.op = "loaded"

ClaimSourceNames == [n \in {"source_01.txt", "source_02.txt", "source_03.txt"} |-> SubSeq(n, 8, 9)]
ClaimGoldNames == [n \in {"gold_01.json", "gold_02.json", "gold_03.json"} |-> SubSeq(n, 6, 7)]
ClaimFiles == {e \in data.dir.entries : ~e.isDir}
ClaimSourceFile(suffix) ==
    CHOOSE e \in ClaimFiles : e.name \in DOMAIN ClaimSourceNames /\ ClaimSourceNames[e.name] = suffix
ClaimGoldFile(suffix) ==
    CHOOSE e \in ClaimFiles : e.name \in DOMAIN ClaimGoldNames /\ ClaimGoldNames[e.name] = suffix
ClaimSources == {ClaimSourceNames[e.name] : e \in {f \in ClaimFiles : f.name \in DOMAIN ClaimSourceNames}}
ClaimGolds == {ClaimGoldNames[e.name] : e \in {f \in ClaimFiles : f.name \in DOMAIN ClaimGoldNames}}
ClaimSourceOnly == ClaimSources \ ClaimGolds
ClaimGoldOnly == ClaimGolds \ ClaimSources
ClaimUnmatched == Cardinality(ClaimSourceOnly) + Cardinality(ClaimGoldOnly)

\* the insights of the well-formed gold files, trimmed, the empty ones left out
ClaimInsights ==
    (Gold01 :> <<"Check units">>) @@ (Gold01NoInsights :> <<>>)
    @@ (Gold02 :> <<"Units matter", "Always">>) @@ (Gold02Blank :> <<>>)
    @@ (Gold03 :> <<"x">>)
\* the source texts, trimmed
ClaimSourceText ==
    ("Check units daily.\n" :> "Check units daily.") @@ (" \n\t" :> "")
    @@ ("Units matter." :> "Units matter.") @@ ("" :> "")

ClaimAllReadable == data.dir.exists /\ \A e \in ClaimFiles : e.readable
ClaimMalformedGold ==
    \E e \in ClaimFiles :
        e.name \in DOMAIN ClaimGoldNames /\ e.readable /\ e.content \notin DOMAIN ClaimInsights
ClaimValidPairs ==
    {s \in ClaimSources \cap ClaimGolds :
        /\ ClaimSourceFile(s).readable /\ ClaimGoldFile(s).readable
        /\ ClaimGoldFile(s).content \in DOMAIN ClaimInsights
        /\ ClaimSourceText[ClaimSourceFile(s).content] # ""
        /\ ClaimInsights[ClaimGoldFile(s).content] # <<>>}

ClaimNamesAll ==
    /\ data.err.kind = "unmatched"
    /\ {data.err.missingGold[i] : i \in 1..Len(data.err.missingGold)} = ClaimSourceOnly
    /\ {data.err.missingSource[i] : i \in 1..Len(data.err.missingSource)} = ClaimGoldOnly
    /\ \A s \in ClaimSourceOnly \cup ClaimGoldOnly : Contains(data.err.msg, s)

\* C16 (as stated): for a directory with N matched pairs and M unmatched
\* files LoadDataset succeeds if and only if M = 0, and when M > 0 the
\* error names every unmatched suffix on both sides.
Orig_C16_SucceedsIffNoUnmatched ==
    Loaded =>
        /\ (data.err.kind = "nil") <=> (ClaimUnmatched = 0)
        /\ ClaimUnmatched > 0 => ClaimNamesAll

\* C16 (corrected): LoadDataset fails whenever the directory holds an
\* unmatched source or gold file (M > 0).  When every file can be read and
\* every gold file is well-formed JSON, the error for M > 0 names every
\* unmatched suffix, every source-only suffix as missing gold and every
\* gold-only suffix as missing source; and with M = 0 the load succeeds if
\* and only if the directory and all files can be read, no gold file is
\* malformed and at least one pair has non-empty source text and a
\* non-empty gold insight.
Thm_C16_UnmatchedFailsAndIsNamed ==
    Loaded =>
        /\ ClaimUnmatched > 0 => data.err.kind # "nil"
        /\ (ClaimUnmatched > 0 /\ ClaimAllReadable /\ ~ClaimMalformedGold) => ClaimNamesAll
        /\ ClaimUnmatched = 0 =>
              ((data.err.kind = "nil")
                  <=> (ClaimAllReadable /\ ~ClaimMalformedGold /\ ClaimValidPairs # {}))

\* two sources without gold and one gold without source, all three named
Wit_C16_ThreeUnmatchedNamed ==
    /\ Loaded
    /\ data.err.msg
         = "dataset has unmatched files (missing gold for: 01, 02; missing source for: 03)"

\* C17: every successful LoadDataset result is non-empty, sorted ascending
\* by case identifier, and holds exactly the pairs whose trimmed source text
\* is non-empty and that have a gold insight that is non-empty after
\* trimming; when no pair qualifies, or a gold file is malformed JSON, the
\* load fails.
Thm_C17_ResultIsTheValidPairs ==
    Loaded =>
        /\ data.err.kind = "nil" =>
              /\ Len(data.cases) > 0
              /\ \A i, j \in 1..Len(data.cases) :
                    i < j => ~StringLess(data.cases[j].ID, data.cases[i].ID)
              /\ Len(data.cases) = Cardinality(ClaimValidPairs)
              /\ {<<data.cases[i].Source, data.cases[i].GoldInsights>> : i \in 1..Len(data.cases)}
                   = {<<ClaimSourceText[ClaimSourceFile(s).content],
                        ClaimInsights[ClaimGoldFile(s).content]>> : s \in ClaimValidPairs}
        /\ (ClaimValidPairs = {} \/ ClaimMalformedGold) => data.err.kind # "nil"

\* three pairs, the one without source text left out, the other two in
\* order
Wit_C17_TwoOfThreePairs ==
    /\ Loaded
    /\ ClaimSources \cap ClaimGolds = {"01", "02", "03"}
    /\ Len(data.cases) = 2
    /\ StringLess(data.cases[1].ID, data.cases[2].ID)
    /\ data.cases[2].GoldInsights = <<"Units matter", "Always">>


-----------------------------------------------------------------------------
(* unnamed/part_014 (internal/eval/parse.go): ParseOutput, and json.Marshal *)
(* of a ParsedOutput (types.go:14-18).                                     *)

\* strings.Index and strings.LastIndex, counted from 1; 0 when sub does
\* not occur
Index(s, sub) ==
    LET hits == {i \in 1..(Len(s) - Len(sub) + 1) : SubSeq(s, i, i + Len(sub) - 1) = sub}
    IN  IF hits = {} THEN 0 ELSE MinOf(hits)

LastIndex(s, sub) ==
    LET hits == {i \in 1..(Len(s) - Len(sub) + 1) : SubSeq(s, i, i + Len(sub) - 1) = sub}
    IN  IF hits = {} THEN 0 ELSE MaxOf(hits)

Fence == Backtick \o Backtick \o Backtick
JsonFence == Fence \o "json"

PayloadFields == [tldr |-> "string", key_insights |-> "strings", evidence_quotes |-> "strings"]

ZeroParsedOutput == [TLDR |-> "", KeyInsights |-> <<>>, EvidenceQuotes |-> <<>>]

\* lines 11-15
stripFences(raw) ==
    TrimSpace(TrimSuffix(TrimPrefix(TrimPrefix(TrimSpace(raw), JsonFence), Fence), Fence))

\* the variant of lines 17-19 that keeps what precedes the first brace
fromFirstBraceKeepAll(clean) == clean

\* lines 17-19
fromFirstBrace(clean) ==
    IF Index(clean, "{") > 0 THEN SubSeq(clean, Index(clean, "{"), Len(clean)) ELSE clean

\* lines 20-22
toLastBrace(clean) ==
    IF LastIndex(clean, "}") > 0 THEN SubSeq(clean, 1, LastIndex(clean, "}")) ELSE clean

\* the text handed to json.Unmarshal
cleaned(raw) == toLastBrace(fromFirstBrace(stripFences(raw)))

\* the variant of lines 31-39 that returns what was decoded before the error
parsedOfKeepsDecoded(p) ==
    [out |-> [TLDR |-> TrimSpace(p.strs["tldr"]),
              KeyInsights |-> normalizeLines(p.lists["key_insights"]),
              EvidenceQuotes |-> normalizeLines(p.lists["evidence_quotes"])],
     err |-> IF p.ok THEN "nil" ELSE "invalid JSON output"]

\* lines 31-39, p the payload after json.Unmarshal
parsedOf(p) ==
    IF ~p.ok THEN [out |-> ZeroParsedOutput, err |-> "invalid JSON output"]
    ELSE [out |-> [TLDR |-> TrimSpace(p.strs["tldr"]),
                   KeyInsights |-> normalizeLines(p.lists["key_insights"]),
                   EvidenceQuotes |-> normalizeLines(p.lists["evidence_quotes"])],
          err |-> "nil"]

ParseOutput(raw) == parsedOf(UnmarshalText(cleaned(raw), PayloadFields))

\* the encoder's string: the quote, the backslash and the control
\* characters are escaped, <, > and & are written as \u00XX, a byte that is
\* not valid UTF-8 is written as \ufffd
escapedByte(ch) ==
    IF ch = Quote THEN "\\\""
    ELSE IF ch = Backslash THEN "\\\\"
    ELSE IF ch = "\n" THEN "\\n"
    ELSE IF ch = "\r" THEN "\\r"
    ELSE IF ch = "\t" THEN "\\t"
    ELSE IF ch = "<" THEN "\\u003c"
    ELSE IF ch = ">" THEN "\\u003e"
    ELSE IF ch = "&" THEN "\\u0026"
    ELSE ch

RECURSIVE appendFrom(_, _, _)
appendFrom(s, i, acc) ==
    IF i > Len(s) THEN acc
    ELSE IF runeWidth(s, i) = 0 THEN appendFrom(s, i + 1, acc \o "\\ufffd")
    ELSE IF runeWidth(s, i) = 1 THEN appendFrom(s, i + 1, acc \o escapedByte(CharAt(s, i)))
    ELSE appendFrom(s, i + runeWidth(s, i), acc \o SubSeq(s, i, i + runeWidth(s, i) - 1))

\* the variant of the encoder's string that escapes nothing
appendStringRaw(s) == Quote \o s \o Quote

appendString(s) == Quote \o appendFrom(s, 1, "") \o Quote

encodedStrings(ss) == [i \in 1..Len(ss) |-> appendString(ss[i])]

\* a []string: null when the slice is nil; indent is what MarshalIndent
\* puts before each element, "" for Marshal
marshalStrings(ss, isNil, indented) ==
    IF isNil THEN "null"
    ELSE IF Len(ss) = 0 THEN "[]"
    ELSE IF indented THEN "[\n    " \o Join(encodedStrings(ss), ",\n    ") \o "\n  ]"
    ELSE "[" \o Join(encodedStrings(ss), ",") \o "]"

\* json.Marshal(v) and json.MarshalIndent(v, "", "  ") of a ParsedOutput;
\* nils are the json tags of the slices that are nil
MarshalOutput(v, nils, indented) ==
    IF indented
    THEN "{\n  \"tldr\": " \o appendString(v.TLDR)
         \o ",\n  \"key_insights\": "
         \o marshalStrings(v.KeyInsights, "key_insights" \in nils, TRUE)
         \o ",\n  \"evidence_quotes\": "
         \o marshalStrings(v.EvidenceQuotes, "evidence_quotes" \in nils, TRUE) \o "\n}"
    ELSE "{\"tldr\":" \o appendString(v.TLDR)
         \o ",\"key_insights\":"
         \o marshalStrings(v.KeyInsights, "key_insights" \in nils, FALSE)
         \o ",\"evidence_quotes\":"
         \o marshalStrings(v.EvidenceQuotes, "evidence_quotes" \in nils, FALSE) \o "}"

\* the payloads, with the three keys of the schema and well-formed
PayloadHi == "{\"tldr\":\"hi\",\"key_insights\":[\"a\"],\"evidence_quotes\":[\"b\"]}"
PayloadSpaced ==
    "{ \"tldr\" : \" Units {matter} \",\n \"key_insights\" : [\" a \", \"\", \"b }\"],\n \"evidence_quotes\" : [] }"
PayloadEscaped ==
    "{\"tldr\":\"say \\\"x\\\" \\u003c y\",\"key_insights\":[\"back\\\\\",\"ÿ\"],\"evidence_quotes\":[\"" \o Fence \o "\"]}"
ValidPayloads == {PayloadHi, PayloadSpaced, PayloadEscaped}

\* other texts a model may answer with
OtherTexts ==
    {"{\"tldr\":\"x\",\"key_insights\":[\"a\"]",
     "<html>bad gateway</html>",
     "just text",
     "use {x} here",
     "null",
     "{\"tldr\":\" x \",\"key_insights\":5}",
     "{\"TLDR\":\"up\",\"key_insights\":[null,\"k\"],\"other\":{\"a\":[1,true]},\"tldr\":null}",
     ""}

\* what may precede and follow the payload
BeforePool == {"", JsonFence \o "\n", Fence \o "\n", "Here is the summary:\n", " \n", "Result {draft}: "}
AfterPool == {"", "\n" \o Fence, "\n" \o Fence \o "\n", "\nHope this helps.", "\n(end})"}

\* the ParsedOutput values serialized
TLDRPool == {"", " hi ", "a \"q\" <b> & c\\d {x}\n", "ÿ up", "ok ï¿½"}
InsightsPool == {<<>>, <<" a ", "", "b">>, <<Fence, " \t">>, <<"x", "ÿ">>}
QuotesPool == {<<>>, <<"q}", " ] ">>}

ValuePool ==
    {[TLDR |-> t, KeyInsights |-> k, EvidenceQuotes |-> q] :
        t \in TLDRPool, k \in InsightsPool, q \in QuotesPool}

\* the slices of v that may be nil: the empty ones
NilChoices(v) ==
    SUBSET ((IF Len(v.KeyInsights) = 0 THEN {"key_insights"} ELSE {})
            \cup (IF Len(v.EvidenceQuotes) = 0 THEN {"evidence_quotes"} ELSE {}))

NoResult == [out |-> ZeroParsedOutput, err |-> "nil"]

ParseStart ==
    [kind |-> "raw", op |-> "start", before |-> "", payload |-> "", after |-> "",
     value |-> ZeroParsedOutput, nils |-> {}, indented |-> FALSE,
     text |-> "", result |-> NoResult, bare |-> NoResult, again |-> NoResult]

ParseInit ==
    \/ \E b \in BeforePool, p \in ValidPayloads \cup OtherTexts, a \in AfterPool :
          parse = [ParseStart EXCEPT !.before = b, !.payload = p, !.after = a]
    \/ \E v \in ValuePool, indented \in BOOLEAN :
          \E nils \in NilChoices(v) :
              parse = [ParseStart EXCEPT !.kind = "value", !.value = v, !.nils = nils,
                                         !.indented = indented]

\* ParseOutput on the payload with what precedes and follows it
ParseOutputCall ==
    /\ parse.kind = "raw" /\ parse.op = "start"
    /\ parse' = [parse EXCEPT !.op = "parsed",
                              !.text = parse.before \o parse.payload \o parse.after,
                              !.result = ParseOutput(parse.before \o parse.payload \o parse.after)]

\* ParseOutput on the payload alone
ParseOutputBare ==
    /\ parse.op = "parsed"
    /\ parse' = [parse EXCEPT !.op = "compared", !.bare = ParseOutput(parse.payload)]

\* json.Marshal or json.MarshalIndent of the value
MarshalCall ==
    /\ parse.kind = "value" /\ parse.op = "start"
    /\ parse' = [parse EXCEPT !.op = "serialized",
                              !.text = MarshalOutput(parse.value, parse.nils, parse.indented)]

\* ParseOutput on the serialized value
ParseOutputOfMarshal ==
    /\ parse.op = "serialized"
    /\ parse' = [parse EXCEPT !.op = "reparsed", !.result = ParseOutput(parse.text)]

\* the returned value serialized and parsed once more
RoundTripAgain ==
    /\ parse.op = "reparsed" /\ parse.result.err = "nil"
    /\ parse' = [parse EXCEPT !.op = "reparsedTwice",
                              !.again = ParseOutput(MarshalOutput(parse.result.out, {},
                                                                  parse.indented))]

InitParse == ScoreIdle /\ SumIdle /\ HistIdle /\ ConcIdle /\ BoardIdle /\ DataIdle /\ ParseInit /\ CmdIdle

NextParse ==
    \/ ParseOutputCall /\ UNCHANGED <<cmdVars, scoreVars, sumVars, histVars, conc, board, data>>
    \/ ParseOutputBare /\ UNCHANGED <<cmdVars, scoreVars, sumVars, histVars, conc, board, data>>
    \/ MarshalCall /\ UNCHANGED <<cmdVars, scoreVars, sumVars, histVars, conc, board, data>>
    \/ ParseOutputOfMarshal /\ UNCHANGED <<cmdVars, scoreVars, sumVars, histVars, conc, board, data>>
    \/ RoundTripAgain /\ UNCHANGED <<cmdVars, scoreVars, sumVars, histVars, conc, board, data>>

SpecParse == InitParse /\ [][NextParse]_vars

-----------------------------------------------------------------------------
(* Claims about ParseOutput.                                               *)

\* what the three payloads say, read by hand
ClaimParsed ==
    (PayloadHi :> [TLDR |-> "hi", KeyInsights |-> <<"a">>, EvidenceQuotes |-> <<"b">>])
    @@ (PayloadSpaced :>
          [TLDR |-> "Units {matter}", KeyInsights |-> <<"a", "b }">>, EvidenceQuotes |-> <<>>])
    @@ (PayloadEscaped :>
          [TLDR |-> "say \"x\" < y", KeyInsights |-> <<"back\\", ReplacementChar>>,
           EvidenceQuotes |-> <<Fence>>])

ClaimFenceBefore == {JsonFence \o "\n", Fence \o "\n"}
ClaimFenceAfter == {"\n" \o Fence, "\n" \o Fence \o "\n"}
ClaimProseBefore == {"", "Here is the summary:\n", " \n", "Result {draft}: "}
ClaimProseAfter == {"", "\nHope this helps.", "\n(end})"}
\* the prose without an opening brace, the prose without a closing brace
ClaimNoBraceBefore == {"", "Here is the summary:\n", " \n"}
ClaimNoBraceAfter == {"", "\nHope this helps."}

Compared == parse.op = "compared" /\ parse.payload \in ValidPayloads

\* C18 (as stated): for a valid payload of the schema ParseOutput returns
\* the same ParsedOutput for the bare payload, for the payload between a
\* leading and a trailing fence, and for the payload with arbitrary prose
\* before its first '{' and after its last '}'.
Orig_C18_SameForWrappedPayload ==
    (/\ Compared
     /\ \/ parse.before \in ClaimFenceBefore /\ parse.after \in ClaimFenceAfter
        \/ parse.before \in ClaimProseBefore /\ parse.after \in ClaimProseAfter)
        => parse.result = parse.bare

\* C18 (corrected): for a valid payload of the schema ParseOutput returns,
\* without error, the same ParsedOutput for the bare payload, for the
\* payload with a leading fence (with or without the word json) and a
\* trailing fence, and for the payload with prose before it that holds no
\* '{' and prose after it that holds no '}'.
Thm_C18_SameWithoutBracesInProse ==
    (/\ Compared
     /\ parse.before \in ClaimFenceBefore \cup ClaimNoBraceBefore
     /\ parse.after \in ClaimFenceAfter \cup ClaimNoBraceAfter)
        => /\ parse.bare = [out |-> ClaimParsed[parse.payload], err |-> "nil"]
           /\ parse.result = parse.bare

\* prose on both sides of a payload that has braces inside its strings
Wit_C18_ProseAroundPayload ==
    /\ Compared
    /\ parse.before = "Here is the summary:\n"
    /\ parse.after = "\nHope this helps."
    /\ parse.payload = PayloadSpaced
    /\ parse.result.out.KeyInsights = <<"a", "b }">>

\* the strings of the values, trimmed by hand
ClaimTrimmed ==
    ("" :> "") @@ (" hi " :> "hi")
    @@ ("a \"q\" <b> & c\\d {x}\n" :> "a \"q\" <b> & c\\d {x}")
    @@ ("ÿ up" :> "ÿ up") @@ ("ok ï¿½" :> "ok ï¿½")
    @@ (" a " :> "a") @@ ("b" :> "b") @@ (Fence :> Fence) @@ (" \t" :> "")
    @@ ("x" :> "x") @@ ("ÿ" :> "ÿ") @@ ("q}" :> "q}") @@ (" ] " :> "]")
    @@ ("ï¿½ up" :> "ï¿½ up") @@ ("ï¿½" :> "ï¿½")

\* the same strings with the byte that is not UTF-8 replaced by U+FFFD
ClaimCoerced ==
    [s \in DOMAIN ClaimTrimmed |->
        IF s = "ÿ up" THEN "ï¿½ up" ELSE IF s = "ÿ" THEN "ï¿½" ELSE s]

ClaimNonEmpty(s) == s # ""

ClaimNormalized(v) ==
    [TLDR |-> ClaimTrimmed[v.TLDR],
     KeyInsights |->
         SelectSeq([i \in 1..Len(v.KeyInsights) |-> ClaimTrimmed[v.KeyInsights[i]]], ClaimNonEmpty),
     EvidenceQuotes |->
         SelectSeq([i \in 1..Len(v.EvidenceQuotes) |-> ClaimTrimmed[v.EvidenceQuotes[i]]],
                   ClaimNonEmpty)]

ClaimValidUTF8(v) ==
    [TLDR |-> ClaimCoerced[v.TLDR],
     KeyInsights |-> [i \in 1..Len(v.KeyInsights) |-> ClaimCoerced[v.KeyInsights[i]]],
     EvidenceQuotes |-> [i \in 1..Len(v.EvidenceQuotes) |-> ClaimCoerced[v.EvidenceQuotes[i]]]]

Reparsed == parse.op \in {"reparsed", "reparsedTwice"}

\* C19 (as stated): for any ParsedOutput value, serializing it to the
\* three-key schema and applying ParseOutput yields, without error, the
\* trim-normalized form of that value; the round trip of an already
\* normalized value returns it unchanged.
Orig_C19_RoundTripNormalizes ==
    /\ Reparsed => parse.result = [out |-> ClaimNormalized(parse.value), err |-> "nil"]
    /\ parse.op = "reparsedTwice" => parse.again = parse.result

\* C19 (corrected): for any ParsedOutput value whose strings are valid
\* UTF-8, serializing it to the three-key schema (tldr, key_insights,
\* evidence_quotes) and applying ParseOutput yields, without error, the
\* trim-normalized form of that value (strings trimmed, empty array
\* elements dropped, order kept); for any value at all it yields the
\* trim-normalized form of the value with every byte that is not valid
\* UTF-8 replaced by U+FFFD; the round trip of the value returned returns
\* it unchanged.
Thm_C19_RoundTripNormalizesValidUTF8 ==
    /\ Reparsed =>
          parse.result = [out |-> ClaimNormalized(ClaimValidUTF8(parse.value)), err |-> "nil"]
    /\ parse.op = "reparsedTwice" => parse.again = parse.result

\* a value with quotes, angle brackets, a backslash and braces in its
\* strings, an empty element to drop and a nil slice, there and back twice
Wit_C19_EscapedThereAndBack ==
    /\ parse.op = "reparsedTwice"
    /\ parse.value.TLDR = "a \"q\" <b> & c\\d {x}\n"
    /\ parse.value.KeyInsights = <<" a ", "", "b">>
    /\ parse.nils = {"evidence_quotes"}
    /\ parse.indented
    /\ parse.again.out = [TLDR |-> "a \"q\" <b> & c\\d {x}", KeyInsights |-> <<"a", "b">>,
                          EvidenceQuotes |-> <<>>]

\* the texts of OtherTexts that are not JSON, whatever is put around them
ClaimNotJSON ==
    {"{\"tldr\":\"x\",\"key_insights\":[\"a\"]", "<html>bad gateway</html>", "just text",
     "use {x} here", ""}

ClaimIsTrimmed(s) == s = "" \/ (~IsSpace(CharAt(s, 1)) /\ ~IsSpace(CharAt(s, Len(s))))

ClaimIsNormalized(o) ==
    /\ ClaimIsTrimmed(o.TLDR)
    /\ \A i \in 1..Len(o.KeyInsights) :
          o.KeyInsights[i] # "" /\ ClaimIsTrimmed(o.KeyInsights[i])
    /\ \A i \in 1..Len(o.EvidenceQuotes) :
          o.EvidenceQuotes[i] # "" /\ ClaimIsTrimmed(o.EvidenceQuotes[i])

ClaimErrorOrOutput(r) ==
    /\ r.err # "nil" => r.out = ZeroParsedOutput
    /\ r.err = "nil" => ClaimIsNormalized(r.out)

\* C20: ParseOutput returns either an error with the zero ParsedOutput or a
\* normalized ParsedOutput without error: in every result with an error
\* the output is the zero value, in every result without one each string
\* is trimmed and no array holds an empty string, and a text that is not
\* valid JSON after trimming, fence stripping and slicing (truncated JSON,
\* HTML, plain text) gives an error.
Thm_C20_ErrorOrNormalizedOutput ==
    /\ parse.op # "start" =>
          /\ ClaimErrorOrOutput(parse.result)
          /\ ClaimErrorOrOutput(parse.bare)
          /\ ClaimErrorOrOutput(parse.again)
    /\ (parse.op \in {"parsed", "compared"} /\ parse.payload \in ClaimNotJSON) =>
          parse.result.err # "nil"
    /\ (parse.op = "compared" /\ parse.payload \in ClaimNotJSON) => parse.bare.err # "nil"

\* truncated JSON between fences: an error and the zero value
Wit_C20_TruncatedIsError ==
    /\ parse.op = "parsed"
    /\ parse.payload = "{\"tldr\":\"x\",\"key_insights\":[\"a\"]"
    /\ parse.before = JsonFence \o "\n"
    /\ parse.after = "\n" \o Fence
    /\ parse.result.err # "nil"
    /\ parse.result.out = ZeroParsedOutput

\* ---------------------------------------------------------------------
\* C30: the identifier of a loaded case

\* the id field of the well-formed gold files
ClaimGoldID ==
    (Gold01 :> "zz") @@ (Gold01NoInsights :> "01") @@ (Gold02 :> "")
    @@ (Gold02Blank :> "") @@ (Gold03 :> "03")
\* the gold file's id when it is non-empty, the suffix otherwise
ClaimCaseID(s) ==
    IF ClaimGoldID[ClaimGoldFile(s).content] # "" THEN ClaimGoldID[ClaimGoldFile(s).content]
    ELSE s
ClaimCaseOf(s) ==
    {i \in 1..Len(data.cases) :
        /\ data.cases[i].Source = ClaimSourceText[ClaimSourceFile(s).content]
        /\ data.cases[i].GoldInsights = ClaimInsights[ClaimGoldFile(s).content]}

\* C30 (as stated): every case returned by LoadDataset has as ID the id
\* field of its gold file when that field is non-empty, and its file
\* suffix otherwise.
Orig_C30_GoldIDWins ==
    (Loaded /\ data.err.kind = "nil") =>
        \A s \in ClaimValidPairs : \A i \in ClaimCaseOf(s) : data.cases[i].ID = ClaimCaseID(s)

\* what the code does: the directory is read in file name order, every
\* gold file before every source file, and loading the source file sets
\* the ID to the suffix again
Obs_C30_SuffixAlways ==
    (Loaded /\ data.err.kind = "nil") =>
        \A s \in ClaimValidPairs : \A i \in ClaimCaseOf(s) : data.cases[i].ID = s

\* ---------------------------------------------------------------------
\* C29: appending after an interrupted append

\* the file ends in a line that has no line feed
ClaimUnterminated(content) == content # <<>> /\ content[Len(content)] # LF

\* C29 (as stated): when an interrupted AppendHistory left a partial line
\* without line feed at the end of the file, every record a later
\* successful AppendHistory writes is returned by LoadHistory; only the
\* partial line is skipped.
Orig_C29_RecordsAfterPartialLineLoad ==
    (hist.stage = 3 /\ hist.err = "nil" /\ ClaimUnterminated(hist.before)) =>
        \A i \in 1..Len(hist.report.Models) :
            \E j \in 1..Len(hist.rows) :
                RecordEqual(hist.rows[j], RunRecord(hist.report, hist.report.Models[i]))

\* what the code does: the records after the first one are returned
Obs_C29_AllButTheFirstLoad ==
    (hist.stage = 3 /\ hist.err = "nil" /\ ClaimUnterminated(hist.before)) =>
        \A i \in 2..Len(hist.report.Models) :
            \E j \in 1..Len(hist.rows) :
                RecordEqual(hist.rows[j], RunRecord(hist.report, hist.report.Models[i]))

-----------------------------------------------------------------------------
(* cmd/chat.go: the interactive chat session.  One pass of the loop of     *)
(* runInteractiveChat is one action: a line is read, a command is handled  *)
(* or the line is sent with the conversation context, and a successful     *)
(* exchange is appended to the context.                                    *)

maxContextMessages == 20

Message(role, content) == [Role |-> role, Content |-> content]

SystemPrompt == "Be concise and direct. Answer briefly and to the point."

\* Client.buildMessagesWithContext: the context, then the system prompt
\* and the current user message
buildMessagesWithContext(content, context) ==
    context \o <<Message("system", SystemPrompt), Message("user", content)>>

\* appendExchange dropping the newest two messages instead of the oldest
appendExchangeDropsNewest(ctx, input, response, maxMessages) ==
    LET grown == ctx \o <<Message("user", input), Message("assistant", response)>>
    IN  IF Len(grown) > maxMessages THEN SubSeq(grown, 1, Len(grown) - 2) ELSE grown

appendExchange(ctx, input, response, maxMessages) ==
    LET grown == ctx \o <<Message("user", input), Message("assistant", response)>>
    IN  IF Len(grown) > maxMessages THEN SubSeq(grown, 3, Len(grown)) ELSE grown

\* handleChatCommand: the context after the command, and whether the
\* process goes on (/exit and /quit leave through os.Exit)
handleChatCommand(input, context) ==
    LET cmd == ToLower(input)
    IN  CASE cmd = "/clear" -> [context |-> <<>>, alive |-> TRUE]
          [] cmd \in {"/exit", "/quit"} -> [context |-> context, alive |-> FALSE]
          [] OTHER -> [context |-> context, alive |-> TRUE]

\* the lines typed, as waitForInput returns them (trimmed)
ChatLines == {"a", "b"}
ChatCommands == {"/clear", "/CLEAR", "/model", "/context", "/nonsense", "/exit"}
ChatReplies == {"r"}
ChatErrors == {"request failed after 3 attempts: API error: 503 - busy"}

ChatInit ==
    chat = [conversationContext |-> <<>>, alive |-> TRUE, last |-> "start",
            input |-> "", response |-> "", sent |-> <<>>, dropped |-> 0]

\* an empty line: the loop continues
ChatEmptyLine ==
    /\ chat.alive
    /\ chat' = [chat EXCEPT !.last = "empty", !.input = "", !.response = "",
                            !.sent = <<>>, !.dropped = 0]

\* a line starting with "/": handleChatCommand handles every such line
ChatCommand(input) ==
    /\ chat.alive
    /\ HasPrefix(input, "/")
    /\ LET r == handleChatCommand(input, chat.conversationContext)
       IN  chat' = [chat EXCEPT !.conversationContext = r.context,
                                !.alive = r.alive, !.last = "command",
                                !.input = input, !.response = "",
                                !.sent = <<>>, !.dropped = 0]

\* a line sent with client.Chat, which returns the reply
ChatExchange(input, response) ==
    /\ chat.alive
    /\ LET next == appendExchange(chat.conversationContext, input, response,
                                  maxContextMessages)
       IN  chat' = [chat EXCEPT
                      !.conversationContext = next,
                      !.last = "reply", !.input = input, !.response = response,
                      !.sent = buildMessagesWithContext(input, chat.conversationContext),
                      !.dropped = Len(chat.conversationContext) + 2 - Len(next)]

\* a line sent with client.Chat, which returns an error
ChatFailure(input, err) ==
    /\ chat.alive
    /\ chat' = [chat EXCEPT
                  !.last = "error", !.input = input, !.response = err,
                  !.sent = buildMessagesWithContext(input, chat.conversationContext),
                  !.dropped = 0]

ChatIdleOthers ==
    /\ ScoreIdle /\ SumIdle /\ HistIdle /\ ConcIdle /\ BoardIdle /\ DataIdle /\ ParseIdle
    /\ run = 0 /\ http = 0 /\ render = 0

InitChat == ChatInit /\ ChatIdleOthers

chatOthers == <<scoreVars, sumVars, histVars, conc, board, data, parse, run, http, render>>

NextChat ==
    \/ ChatEmptyLine /\ UNCHANGED chatOthers
    \/ \E input \in ChatCommands : ChatCommand(input) /\ UNCHANGED chatOthers
    \/ \E input \in ChatLines, response \in ChatReplies :
           ChatExchange(input, response) /\ UNCHANGED chatOthers
    \/ \E input \in ChatLines, err \in ChatErrors :
           ChatFailure(input, err) /\ UNCHANGED chatOthers

SpecChat == InitChat /\ [][NextChat]_vars

\* ---------------------------------------------------------------------
\* C28: the sliding window of the chat session

\* the last n elements of a sequence
ClaimLast(s, n) == IF Len(s) <= n THEN s ELSE SubSeq(s, Len(s) - n + 1, Len(s))

ClaimStep ==
    /\ chat'.last = "reply" =>
          chat'.conversationContext
            = ClaimLast(chat.conversationContext
                          \o <<[Role |-> "user", Content |-> chat'.input],
                               [Role |-> "assistant", Content |-> chat'.response]>>,
                        20)
    /\ chat'.last = "error" => chat'.conversationContext = chat.conversationContext
    /\ (chat'.last = "command" /\ chat'.input \in {"/clear", "/CLEAR"}) =>
          chat'.conversationContext = <<>>

\* C28: the context of a chat session never holds more than 20 messages;
\* each successful exchange appends the user message and then the
\* assistant reply and drops the oldest messages beyond the window; a
\* failed request leaves the context unchanged, and /clear empties it.
Thm_C28_WindowOfTwenty ==
    /\ [](Len(chat.conversationContext) <= 20)
    /\ [][ClaimStep]_vars

\* a full window that lost its two oldest messages to the last exchange
Wit_C28_OldestDropped ==
    /\ Len(chat.conversationContext) = 20
    /\ chat.last = "reply"
    /\ chat.dropped = 2
    /\ chat.conversationContext[19] = [Role |-> "user", Content |-> "b"]
    /\ chat.conversationContext[1] = [Role |-> "user", Content |-> "a"]

-----------------------------------------------------------------------------
(* internal/app: Client.Chat and doRequestWithRetry.  One pass of the      *)
(* retry loop is one action; what the HTTP exchange of the pass gives is   *)
(* its input.  The context of the call can be cancelled at any moment.     *)

\* the HTTP exchange of one doRequest: an answer with status and body, or
\* a transport error of httpClient.Do with its text and its Timeout()
Answer(status, body) ==
    [kind |-> "answer", status |-> status, body |-> body, timeout |-> FALSE, text |-> ""]
Transport(text, timeout) ==
    [kind |-> "transport", status |-> 0, body |-> "", timeout |-> timeout, text |-> text]

GoodBody == "{\"choices\":[{\"message\":{\"content\":\"r\"}}]}"
NoChoicesBody == "{\"choices\":[]}"
Canceled == Transport("Post \"u\": context canceled", FALSE)

Exchanges ==
    {Answer(200, GoodBody), Answer(200, NoChoicesBody),
     Answer(429, "slow down"), Answer(503, "busy"), Answer(500, "internal error"),
     Answer(400, "bad request"), Answer(401, "invalid key"),
     Answer(400, "{\"error\":\"prompt of 4290 tokens is too long\"}"),
     Answer(401, "{\"error\":\"invalid key\",\"request_id\":\"503a1\"}"),
     Transport("Post \"u\": context deadline exceeded (Client.Timeout exceeded while awaiting headers)", TRUE),
     Transport("Post \"u\": dial tcp 10.0.0.1:443: connect: connection refused", FALSE),
     Transport("Post \"u\": EOF", FALSE)}

NoError == [text |-> "", timeout |-> FALSE, isNil |-> TRUE]
Errorf(text, timeout) == [text |-> text, timeout |-> timeout, isNil |-> FALSE]

\* APIError.Error
APIErrorText(status, body) == "API error: " \o ToString(status) \o " - " \o body

\* Client.doRequest with doHTTPRequest: the reply text, or the error
doRequest(x) ==
    IF x.kind = "transport"
    THEN [response |-> "", err |-> Errorf("failed to send request: " \o x.text, x.timeout)]
    ELSE IF x.status # 200
    THEN [response |-> "", err |-> Errorf(APIErrorText(x.status, x.body), FALSE)]
    ELSE IF x.body = NoChoicesBody
    THEN [response |-> "", err |-> Errorf("no choices in response", FALSE)]
    ELSE [response |-> "r", err |-> NoError]

retryablePatterns ==
    <<"connection refused", "connection reset", "temporary failure", "timeout",
      "429", "503", "502", "504">>

\* isRetryableError looking at the Timeout() of the error only
isRetryableErrorTimeoutOnly(err) == ~err.isNil /\ err.timeout

isRetryableError(err) ==
    /\ ~err.isNil
    /\ \/ err.timeout
       \/ \E i \in 1..Len(retryablePatterns) :
              Contains(ToLower(err.text), retryablePatterns[i])

RetryableTable == Table([x \in Exchanges \cup {Canceled} |-> isRetryableError(doRequest(x).err)])

MaxConfigured == 2
DefaultMaxAttempts == 3
\* api.retry.max_attempts: 3 unless configured otherwise
AttemptSettings == (-1..MaxConfigured) \cup {DefaultMaxAttempts}

Max(a, b) == IF a > b THEN a ELSE b

HttpInit ==
    \E m \in AttemptSettings, key \in {"", "k"} :
        http = [MaxAttempts |-> m, APIKey |-> key, pc |-> "call", attempt |-> 1,
                requests |-> <<>>, cancelled |-> FALSE, response |-> "",
                err |-> NoError]

\* Client.Chat up to the call of doRequestWithRetry
ChatCall ==
    /\ http.pc = "call"
    /\ http' = IF http.APIKey = ""
               THEN [http EXCEPT !.pc = "done",
                                 !.err = Errorf("API key is not configured. Set SYN_API_KEY or configure in ~/.config/syn/config.yaml", FALSE)]
               ELSE [http EXCEPT !.pc = "loop"]

\* the context of the call is cancelled (the user's interrupt)
CancelContext ==
    /\ http.pc = "loop"
    /\ ~http.cancelled
    /\ http' = [http EXCEPT !.cancelled = TRUE]

\* the pass returns ctx.Err() from one of its two selects
ReturnCancelled ==
    /\ http.pc = "loop"
    /\ http.cancelled
    /\ http' = [http EXCEPT !.pc = "done", !.err = Errorf("context canceled", FALSE)]

\* one pass that reaches doRequest.  With a cancelled context it gets
\* there only from the second select, when the backoff timer and
\* ctx.Done() are both ready and the timer is taken; the request then
\* fails with the context's error
Attempt(x) ==
    /\ http.pc = "loop"
    /\ http.cancelled => (http.attempt > 1 /\ x = Canceled)
    /\ LET maxAttempts == Max(http.MaxAttempts, 1)
           r == doRequest(x)
           sent == [http EXCEPT !.requests = Append(@, x)]
       IN  http' =
             IF r.err.isNil
             THEN [sent EXCEPT !.pc = "done", !.response = r.response]
             ELSE IF ~RetryableTable[x] \/ http.attempt = maxAttempts
             THEN [sent EXCEPT !.pc = "done",
                               !.err = Errorf("request failed after " \o ToString(maxAttempts)
                                                \o " attempts: " \o r.err.text,
                                              r.err.timeout)]
             ELSE [sent EXCEPT !.attempt = @ + 1]

HttpIdleOthers ==
    /\ ScoreIdle /\ SumIdle /\ HistIdle /\ ConcIdle /\ BoardIdle /\ DataIdle /\ ParseIdle
    /\ run = 0 /\ chat = 0 /\ render = 0

InitHttp == HttpInit /\ HttpIdleOthers

httpOthers == <<scoreVars, sumVars, histVars, conc, board, data, parse, run, chat, render>>

NextHttp ==
    \/ ChatCall /\ UNCHANGED httpOthers
    \/ CancelContext /\ UNCHANGED httpOthers
    \/ ReturnCancelled /\ UNCHANGED httpOthers
    \/ \E x \in Exchanges \cup {Canceled} : Attempt(x) /\ UNCHANGED httpOthers

SpecHttp == InitHttp /\ [][NextHttp]_vars

\* ---------------------------------------------------------------------
\* C27: the attempts of Client.Chat

ClaimTransientStatus == {429, 502, 503, 504}
\* a transient failure: one of the four statuses, a timeout or a
\* connection error
ClaimTransient(x) ==
    \/ x.kind = "answer" /\ x.status \in ClaimTransientStatus
    \/ x.kind = "transport" /\ x # Canceled
ClaimSuccess(x) == x.kind = "answer" /\ x.status = 200 /\ x.body = GoodBody

\* C27 (as stated): Client.Chat makes at most max(MaxAttempts, 1) HTTP
\* attempts, 3 by default, and makes a further attempt only after a
\* transient failure (429, 502, 503, 504, timeout, connection error); the
\* first success, a non-transient failure (400, 401) or the cancellation
\* of the context ends the call.
Orig_C27_RetryOnlyTransient ==
    /\ Len(http.requests) <= (IF http.MaxAttempts > 1 THEN http.MaxAttempts ELSE 1)
    /\ \A i \in 2..Len(http.requests) : ClaimTransient(http.requests[i - 1])
    /\ \A i \in 1..(Len(http.requests) - 1) : ~ClaimSuccess(http.requests[i])

\* what holds: the bound on the attempts, and no attempt after a success
Obs_C27_Bounded ==
    /\ Len(http.requests) <= (IF http.MaxAttempts > 1 THEN http.MaxAttempts ELSE 1)
    /\ \A i \in 1..(Len(http.requests) - 1) : ~ClaimSuccess(http.requests[i])
    /\ http.pc = "done" => (http.err.isNil <=> (http.requests # <<>> /\ ClaimSuccess(http.requests[Len(http.requests)])))

-----------------------------------------------------------------------------
(* internal/eval: RenderMarkdown, the table of an eval report.             *)

RECURSIVE Pow10(_)
Pow10(n) == IF n = 0 THEN 1 ELSE 10 * Pow10(n - 1)

RECURSIVE ZeroPad(_, _)
ZeroPad(s, width) == IF Len(s) >= width THEN s ELSE ZeroPad("0" \o s, width)

\* fmt's %.<decimals>f of a float64 that is not negative: the value
\* rounded to the given number of decimals, ties to even.  The values
\* formatted here have at most that many decimals, which fmt prints as
\* they are.
FormatFixed(fr, decimals) ==
    LET scale == Pow10(decimals)
        q == (fr.num * scale) \div fr.den
        twice == 2 * ((fr.num * scale) % fr.den)
        up == twice > fr.den \/ (twice = fr.den /\ q % 2 = 1)
        n == IF up THEN q + 1 ELSE q
    IN  ToString(n \div scale) \o "." \o ZeroPad(ToString(n % scale), decimals)

\* Time.Format("2006-01-02 15:04:05"): the wall clock reading in the
\* time's own zone
FormatDateTime(tm) == "D" \o ToString(tm.unix + tm.offset)

\* caseStats counting every non-empty Error, blank ones included
caseStatsNoTrim(caseResults) ==
    LET errs == Cardinality({i \in 1..Len(caseResults) : caseResults[i].Error # ""})
    IN  [parsed |-> Len(caseResults) - errs, errs |-> errs]

\* caseStats (render.go) and modelCaseStats (cmd/eval.go): the same loop
caseStats(caseResults) ==
    LET errs == Cardinality({i \in 1..Len(caseResults) :
                                TrimSpace(caseResults[i].Error) # ""})
    IN  [parsed |-> Len(caseResults) - errs, errs |-> errs]

\* the cells of the table row of model m
rowCells(m) ==
    LET st == caseStats(m.Cases)
    IN  <<Backtick \o m.ModelID \o Backtick,
          ToString(st.parsed),
          ToString(st.errs),
          FormatFixed(Frac(m.ElapsedMS, 1000), 2),
          ToString(m.CompletionTokens),
          FormatFixed(m.TokensPerSec, 1),
          ToString(m.AvgTTFMS)>>

rowText(m) == "| " \o Join(rowCells(m), " | ") \o " |\n"

RECURSIVE rowsText(_)
rowsText(models) ==
    IF models = <<>> THEN "" ELSE rowText(Head(models)) \o rowsText(Tail(models))

RenderMarkdown(r) ==
    "# syn eval report\n\n"
    \o "- Generated: " \o FormatDateTime(r.GeneratedAt) \o "\n"
    \o "- Dataset: " \o Backtick \o r.DatasetPath \o Backtick \o "\n"
    \o "- Scoring: disabled (manual review workflow)\n\n"
    \o "| Model | Parsed | Errors | Elapsed (s) | Tokens | Tok/s | TTFT (ms) |\n"
    \o "|---|---:|---:|---:|---:|---:|---:|\n"
    \o rowsText(r.Models)
    \o "\n"

\* the reports RenderMarkdown is called on: the models m-low and m-high
\* in either order, each with up to MaxRenderCases case results that
\* parsed, failed, or carry an Error of white space only, with and
\* without a Score
MaxRenderCases == 2

HalfScore ==
    [ZeroScore EXCEPT !.Recall = Frac(1, 2), !.MissingInsights = 1, !.FormatCompliant = TRUE,
                      !.MatchedGoldCount = 1]
PassScore ==
    [ZeroScore EXCEPT !.Recall = Frac(1, 1), !.FormatCompliant = TRUE, !.Pass = TRUE,
                      !.MatchedGoldCount = 2]

CaseResultOf(score0, err) ==
    [CaseID |-> "01", RawOutput |-> "", Parsed |-> ZeroParsedOutput, Score |-> score0,
     TTFMS |-> 0, Error |-> err]

RenderCasePool ==
    {CaseResultOf(ZeroScore, "parse failed"), CaseResultOf(ZeroScore, ""),
     CaseResultOf(HalfScore, ""), CaseResultOf(PassScore, " \n")}

RenderModelIDs == {"m-low", "m-high"}

RenderModel(id, caseResults) ==
    [ModelID |-> id, Cases |-> caseResults, Summary |-> ZeroSummary,
     ElapsedMS |-> IF id = "m-low" THEN 1500 ELSE 0,
     CompletionTokens |-> IF id = "m-low" THEN 12 ELSE 0,
     TokensPerSec |-> IF id = "m-low" THEN Frac(12000, 1500) ELSE FracZero,
     AvgTTFMS |-> IF id = "m-low" THEN 30 ELSE 0]

RenderModelLists ==
    LET lists == SeqsUpTo(RenderCasePool, MaxRenderCases)
    IN  {<<>>}
        \cup {<<RenderModel(id, l)>> : id \in RenderModelIDs, l \in lists}
        \cup {<<RenderModel(ids[1], l1), RenderModel(ids[2], l2)>> :
                 ids \in {<<"m-low", "m-high">>, <<"m-high", "m-low">>},
                 l1 \in lists, l2 \in lists}

RenderInit ==
    \E models \in RenderModelLists :
        render = [report |-> [GeneratedAt |-> [ZeroTime EXCEPT !.unix = 1],
                              DatasetPath |-> "testdata/eval/walter_lewin",
                              RecallThreshold |-> Frac(9, 10),
                              Models |-> models],
                  op |-> "input", text |-> "", rows |-> <<>>]

\* md := RenderMarkdown(r); rows holds the cells of the table rows written
RenderMarkdownCall ==
    /\ render.op = "input"
    /\ render' = [render EXCEPT
                    !.op = "rendered",
                    !.text = RenderMarkdown(render.report),
                    !.rows = [i \in 1..Len(render.report.Models) |->
                                 rowCells(render.report.Models[i])]]

RenderIdleOthers ==
    /\ ScoreIdle /\ SumIdle /\ HistIdle /\ ConcIdle /\ BoardIdle /\ DataIdle /\ ParseIdle
    /\ run = 0 /\ chat = 0 /\ http = 0

InitRender == RenderInit /\ RenderIdleOthers

NextRender ==
    RenderMarkdownCall
        /\ UNCHANGED <<scoreVars, sumVars, histVars, conc, board, data, parse, run, chat, http>>

SpecRender == InitRender /\ [][NextRender]_vars

\* ---------------------------------------------------------------------
\* C22: the parsed and error counts of the rendered report

Rendered == render.op = "rendered"
ClaimCases(i) == render.report.Models[i].Cases
ClaimNonEmptyErrors(i) ==
    Cardinality({k \in 1..Len(ClaimCases(i)) : ClaimCases(i)[k].Error # ""})
ClaimBlank == {"", " \n"}
ClaimTextErrors(i) ==
    Cardinality({k \in 1..Len(ClaimCases(i)) : ClaimCases(i)[k].Error \notin ClaimBlank})
ClaimCount == [s \in {"0", "1", "2", "3"} |-> CHOOSE n \in 0..3 : ToString(n) = s]
ClaimOrder ==
    /\ Len(render.rows) = Len(render.report.Models)
    /\ \A i \in 1..Len(render.rows) :
          /\ render.rows[i][1] = "´" \o render.report.Models[i].ModelID \o "´"
          /\ Contains(render.text, "| " \o render.rows[i][1] \o " | " \o render.rows[i][2]
                                     \o " | " \o render.rows[i][3] \o " | ")
    /\ \A i, j \in 1..Len(render.rows) :
          i < j => Index(render.text, render.rows[i][1]) < Index(render.text, render.rows[j][1])

-----------------------------------------------------------------------------
(* cmd/eval.go: an eval run.  buildEvalReport calls evalModel for each     *)
(* selected model, evalModel calls Client.ChatStream once for each case,   *)
(* finalizeEvalReport renders the report, writes the response artifacts    *)
(* and the leaderboard file.  What the server sends on each streaming call *)
(* is the input of evalModel.                                              *)

PromptHead ==
    "You are evaluating key-insight extraction quality.\n\nTask:\n"
    \o "1) Produce a short TL;DR.\n"
    \o "2) Extract key insights from the source without losing critical meaning.\n"
    \o "3) Provide direct evidence quotes copied verbatim from the source.\n\n"
    \o "Rules:\n- Return JSON only.\n- Do not include markdown fences.\n"
    \o "- Keep claims faithful to the source.\n"
    \o "- Include the most important concepts and caveats.\n\n"
    \o "Return schema:\n{\n  \"tldr\": \"string\",\n  \"key_insights\": [\"string\"],\n"
    \o "  \"evidence_quotes\": [\"string\"]\n}\n\nSource:\n"

BuildPrompt(source) == PromptHead \o source

\* the lines of an event stream, as readSSEStream tells them apart: a
\* data line with a chunk (its delta content and, if any, its usage), a
\* data line that is no JSON, the line data: [DONE], any other line
NoUsage == -1
DataLine(content, completionTokens) ==
    [kind |-> "chunk", content |-> content, completionTokens |-> completionTokens]
GarbageLine == [kind |-> "garbage", content |-> "", completionTokens |-> NoUsage]
DoneLine == [kind |-> "done", content |-> "", completionTokens |-> NoUsage]
CommentLine == [kind |-> "other", content |-> "", completionTokens |-> NoUsage]

ZeroStreamResult == [Content |-> "", CompletionTokens |-> 0, TTFMS |-> 0]

\* one chunk read: a usage replaces the usage so far, the first content
\* that is not empty sets TTFMS, the content is appended
readChunk(line, firstAt, gotFirstToken, result) ==
    [Content |-> result.Content \o line.content,
     CompletionTokens |-> IF line.completionTokens # NoUsage THEN line.completionTokens
                          ELSE result.CompletionTokens,
     TTFMS |-> IF line.content # "" /\ ~gotFirstToken THEN firstAt ELSE result.TTFMS]

\* the loop of readSSEStream from line i on; firstAt is the time in
\* milliseconds at which the first content arrives
RECURSIVE readLines(_, _, _, _, _)
readLines(lines, i, firstAt, gotFirstToken, result) ==
    IF i > Len(lines) \/ lines[i].kind = "done" THEN result
    ELSE IF lines[i].kind \in {"other", "garbage"}
    THEN readLines(lines, i + 1, firstAt, gotFirstToken, result)
    ELSE readLines(lines, i + 1, firstAt, gotFirstToken \/ lines[i].content # "",
                   readChunk(lines[i], firstAt, gotFirstToken, result))

readSSEStream(w) ==
    IF w.readFails
    THEN [sr |-> ZeroStreamResult, err |-> "failed to read stream: unexpected EOF"]
    ELSE [sr |-> readLines(w.lines, 1, w.firstAt, FALSE, ZeroStreamResult), err |-> ""]

\* Client.ChatStream with doStreamRequest on the exchange w
ChatStream(apiKey, w) ==
    IF apiKey = ""
    THEN [sr |-> ZeroStreamResult,
          err |-> "API key is not configured. Set SYN_API_KEY or configure in ~/.config/syn/config.yaml"]
    ELSE IF w.sendFails
    THEN [sr |-> ZeroStreamResult, err |-> "failed to send request: " \o w.text]
    ELSE IF w.status # 200
    THEN [sr |-> ZeroStreamResult, err |-> APIErrorText(w.status, w.body)]
    ELSE readSSEStream(w)

Stream(lines, firstAt, elapsed) ==
    [sendFails |-> FALSE, text |-> "", status |-> 200, body |-> "", lines |-> lines,
     readFails |-> FALSE, firstAt |-> firstAt, elapsed |-> elapsed]
Refusal(status, body) ==
    [sendFails |-> FALSE, text |-> "", status |-> status, body |-> body, lines |-> <<>>,
     readFails |-> FALSE, firstAt |-> 0, elapsed |-> 0]

AnswerHead == "{\"tldr\":\"Use disciplined reasoning.\",\"key_insights\":[\"no units matter\"],"
AnswerTail == "\"evidence_quotes\":[\" units matter\"]}"

\* a JSON answer in two chunks; the same answer in fences, arriving at
\* once, with a line after [DONE]; prose; a refusal
StreamGood == Stream(<<CommentLine, DataLine(AnswerHead, NoUsage), DataLine(AnswerTail, 6)>>, 30, 750)
StreamFenced ==
    Stream(<<DataLine(JsonFence \o "\n" \o AnswerHead \o AnswerTail \o "\n" \o Fence, NoUsage),
             GarbageLine, DoneLine, DataLine("late", 9)>>, 0, 0)
StreamProse == Stream(<<DataLine("", 3), DataLine("Sure. The units matter.", NoUsage)>>, 40, 750)
StreamRefused == Refusal(429, "slow down")
Streams == {StreamGood, StreamFenced, StreamProse, StreamRefused}

\* what one call gives evalModel: the StreamResult and error of
\* ChatStream, and the result of ParseOutput on the content
parsedStream(s, p) == [sr |-> s.sr, err |-> s.err, parsed |-> p.out, parseErr |-> p.err]
streamOutcome(s) == parsedStream(s, ParseOutput(s.sr.Content))
StreamTable == Table([w \in Streams |-> streamOutcome(ChatStream("k", w))])

ZeroCaseResult ==
    [CaseID |-> "", RawOutput |-> "", Parsed |-> ZeroParsedOutput, Score |-> ZeroScore,
     TTFMS |-> 0, Error |-> ""]

\* the CaseResult evalModel appends for case cs when the call gives o
caseResultOf(cs, o) ==
    IF o.err # ""
    THEN [ZeroCaseResult EXCEPT !.CaseID = cs.ID, !.RawOutput = o.sr.Content,
                                !.TTFMS = o.sr.TTFMS, !.Error = o.err]
    ELSE IF o.parseErr # "nil"
    THEN [ZeroCaseResult EXCEPT !.CaseID = cs.ID, !.RawOutput = o.sr.Content,
                                !.TTFMS = o.sr.TTFMS, !.Error = o.parseErr]
    ELSE [ZeroCaseResult EXCEPT !.CaseID = cs.ID, !.RawOutput = o.sr.Content,
                                !.TTFMS = o.sr.TTFMS, !.Parsed = o.parsed]

\* the loop of evalModel stopping after the first case whose call or
\* parse fails
RECURSIVE caseResultsUntilError(_, _, _)
caseResultsUntilError(caseList, outs, i) ==
    IF i > Len(caseList) THEN <<>>
    ELSE IF caseResultOf(caseList[i], outs[i]).Error # ""
    THEN <<caseResultOf(caseList[i], outs[i])>>
    ELSE <<caseResultOf(caseList[i], outs[i])>> \o caseResultsUntilError(caseList, outs, i + 1)

\* the loop of evalModel over the cases from case i on: outs[i] is what
\* the call for case i gives
RECURSIVE caseResults(_, _, _)
caseResults(caseList, outs, i) ==
    IF i > Len(caseList) THEN <<>>
    ELSE <<caseResultOf(caseList[i], outs[i])>> \o caseResults(caseList, outs, i + 1)

\* one pass of the loop added to the totals
addCall(t, o, elapsed) ==
    [tokens |-> t.tokens + o.sr.CompletionTokens,
     ttf |-> t.ttf + (IF o.err = "" /\ o.sr.TTFMS > 0 THEN o.sr.TTFMS ELSE 0),
     ttfCount |-> t.ttfCount + (IF o.err = "" /\ o.sr.TTFMS > 0 THEN 1 ELSE 0),
     elapsed |-> t.elapsed + elapsed]

\* totalCompletionTokens, totalTTFMS, ttfCount and the time spent after
\* the first n calls
RECURSIVE loopTotals(_, _, _)
loopTotals(outs, ws, n) ==
    IF n = 0 THEN [tokens |-> 0, ttf |-> 0, ttfCount |-> 0, elapsed |-> 0]
    ELSE addCall(loopTotals(outs, ws, n - 1), outs[n], ws[n].elapsed)

\* the ModelResult after the loop
modelResult(modelID, results, t) ==
    [ModelID |-> modelID,
     Cases |-> results,
     Summary |-> ZeroSummary,
     ElapsedMS |-> t.elapsed,
     CompletionTokens |-> t.tokens,
     TokensPerSec |-> IF t.elapsed > 0 THEN Frac(t.tokens * 1000, t.elapsed) ELSE FracZero,
     AvgTTFMS |-> IF t.ttfCount > 0 THEN t.ttf \div t.ttfCount ELSE 0]

evalModelOn(modelID, caseList, ws, outs, results) ==
    modelResult(modelID, results, loopTotals(outs, ws, Len(results)))

evalModelWith(modelID, caseList, ws, outs) ==
    evalModelOn(modelID, caseList, ws, outs, caseResults(caseList, outs, 1))

\* evalModel: ws[i] is the exchange of the call for case i
evalModel(modelID, caseList, ws) ==
    evalModelWith(modelID, caseList, ws, [i \in DOMAIN ws |-> StreamTable[ws[i]]])

\* the ChatStream calls evalModel makes: model and prompt of each
streamCalls(modelID, caseList, made) ==
    [i \in 1..made |-> [Model |-> modelID, Prompt |-> BuildPrompt(caseList[i].Source)]]

\* Time.Format("20060102-150405"), the name of the run's directory
FormatStamp(tm) == "S" \o ToString(tm.unix + tm.offset)

FileNameChars == CharsOf(LowerLetters) \cup CharsOf(UpperLetters) \cup CharsOf(DigitChars)
                 \cup {".", "_", "-"}

\* nonFileRe.ReplaceAllString(s, "_") from character i on: each maximal
\* run of characters outside [a-zA-Z0-9._-] becomes one underscore
RECURSIVE replaceNonFile(_, _)
replaceNonFile(s, i) ==
    IF i > Len(s) THEN ""
    ELSE IF CharAt(s, i) \in FileNameChars THEN CharAt(s, i) \o replaceNonFile(s, i + 1)
    ELSE IF i > 1 /\ CharAt(s, i - 1) \notin FileNameChars THEN replaceNonFile(s, i + 1)
    ELSE "_" \o replaceNonFile(s, i + 1)

\* strings.ReplaceAll of "/" and of ":" by "_"
RECURSIVE replaceSeparators(_, _)
replaceSeparators(s, i) ==
    IF i > Len(s) THEN ""
    ELSE (IF CharAt(s, i) \in {"/", ":"} THEN "_" ELSE CharAt(s, i))
         \o replaceSeparators(s, i + 1)

\* strings.Trim(s, "_")
TrimUnderscores(s) ==
    LET kept == {i \in 1..Len(s) : CharAt(s, i) # "_"}
    IN  IF kept = {} THEN ""
        ELSE SubSeq(s, CHOOSE i \in kept : \A j \in kept : i <= j,
                       CHOOSE i \in kept : \A j \in kept : i >= j)

unknownIfEmpty(s) == IF s = "" THEN "unknown" ELSE s

sanitizeFilePart(s) ==
    unknownIfEmpty(TrimUnderscores(replaceNonFile(replaceSeparators(TrimSpace(s), 1), 1)))

\* the files writeModelCases writes for one model
modelCaseFiles(runDir, m) ==
    {runDir \o "/" \o sanitizeFilePart(m.ModelID) \o "/case_"
       \o sanitizeFilePart(m.Cases[i].CaseID) \o ".json" : i \in 1..Len(m.Cases)}

\* writeResponseArtifacts: the run directory and the files written into
\* it (their JSON content is not part of the model); fails stands for
\* an error of MkdirAll or WriteFile
artifactsIn(report, runDir) ==
    [path |-> runDir, err |-> "nil",
     files |-> {runDir \o "/report.json"}
               \cup UNION {modelCaseFiles(runDir, report.Models[i]) :
                              i \in 1..Len(report.Models)}]

writeResponseArtifacts(report, baseDir, fails) ==
    IF TrimSpace(baseDir) = "" THEN [path |-> "", err |-> "nil", files |-> {}]
    ELSE IF fails THEN [path |-> "", err |-> "failed to create responses dir", files |-> {}]
    ELSE artifactsIn(report, baseDir \o "/" \o FormatStamp(report.GeneratedAt))

ManualMarker == "# syn eval manual leaderboard"
GeneratedMarker == "# syn eval leaderboard"

RECURSIVE leaderboardRows(_)
leaderboardRows(models) ==
    IF models = <<>> THEN ""
    ELSE "|  | " \o Backtick \o Head(models).ModelID \o Backtick \o " |  |\n"
         \o leaderboardRows(Tail(models))

\* buildLeaderboardContent without the loop over the models
templateWithoutModels(report, responsesPath) ==
    ManualMarker \o "\n\n"
    \o "Update ranks manually after reviewing model outputs.\n\n"
    \o "- generated_at: " \o FormatTime(report.GeneratedAt) \o "\n"
    \o "- dataset: " \o Backtick \o report.DatasetPath \o Backtick \o "\n"
    \o "- responses_path: " \o Backtick \o responsesPath \o Backtick \o "\n\n"
    \o "| Rank | Model | Notes |\n"
    \o "|---:|---|---|\n"

buildLeaderboardContent(report, responsesPath) ==
    ManualMarker \o "\n\n"
    \o "Update ranks manually after reviewing model outputs.\n\n"
    \o "- generated_at: " \o FormatTime(report.GeneratedAt) \o "\n"
    \o "- dataset: " \o Backtick \o report.DatasetPath \o Backtick \o "\n"
    \o "- responses_path: " \o Backtick \o responsesPath \o Backtick \o "\n\n"
    \o "| Rank | Model | Notes |\n"
    \o "|---:|---|---|\n"
    \o leaderboardRows(report.Models)

\* the leaderboard path: nothing there, a directory, or a file
Absent == [kind |-> "absent", readable |-> FALSE, content |-> ""]
Directory == [kind |-> "dir", readable |-> FALSE, content |-> ""]
TextFile(content) == [kind |-> "file", readable |-> TRUE, content |-> content]
LockedFile(content) == [kind |-> "file", readable |-> FALSE, content |-> content]

\* shouldKeepExisting keeping only files that carry the manual marker
shouldKeepManualOnly(f) ==
    IF f.kind # "file" THEN FALSE
    ELSE IF ~f.readable THEN TRUE
    ELSE Contains(f.content, ManualMarker)

shouldKeepExisting(f) ==
    IF f.kind # "file" THEN FALSE
    ELSE IF ~f.readable THEN TRUE
    ELSE Contains(f.content, ManualMarker) \/ ~Contains(f.content, GeneratedMarker)

\* ensureManualLeaderboard on the file f at outPath; mkdirFails and
\* writeFails stand for an error of MkdirAll and of WriteFile, which
\* also fails when outPath is a directory
ensureManualLeaderboard(report, responsesPath, f, mkdirFails, writeFails) ==
    IF shouldKeepExisting(f) THEN [created |-> FALSE, err |-> "nil", f |-> f]
    ELSE IF mkdirFails
    THEN [created |-> FALSE, err |-> "failed to prepare leaderboard dir", f |-> f]
    ELSE IF writeFails \/ f.kind = "dir"
    THEN [created |-> FALSE, err |-> "failed to write manual leaderboard", f |-> f]
    ELSE [created |-> TRUE, err |-> "nil",
          f |-> TextFile(buildLeaderboardContent(report, responsesPath))]

\* maybeWriteLeaderboard: created is "not called" when the path is blank
ensured(r) ==
    [created |-> IF r.err # "nil" THEN "error" ELSE IF r.created THEN "true" ELSE "false",
     err |-> r.err, f |-> r.f]

maybeWriteLeaderboard(report, responsesPath, outPath, f, mkdirFails, writeFails) ==
    IF TrimSpace(outPath) = "" THEN [created |-> "not called", err |-> "nil", f |-> f]
    ELSE ensured(ensureManualLeaderboard(report, responsesPath, f, mkdirFails, writeFails))

\* finalizeEvalReport with --format md and no --out: the report is
\* rendered and printed, the artifacts and the leaderboard are written.
\* io names the step that meets an I/O error, if any.
finalized(printed, art, lb) ==
    [printed |-> printed, responsesPath |-> art.path, files |-> art.files,
     created |-> lb.created, err |-> lb.err, f |-> lb.f]

afterArtifacts(report, flags, f, io, printed, art) ==
    IF art.err # "nil"
    THEN [printed |-> printed, responsesPath |-> "", files |-> {}, created |-> "not called",
          err |-> art.err, f |-> f]
    ELSE finalized(printed, art,
                   maybeWriteLeaderboard(report, art.path, flags.LeaderboardOut, f,
                                         io = "mkdir", io = "write"))

finalizeEvalReport(report, flags, f, io) ==
    afterArtifacts(report, flags, f, io, RenderMarkdown(report),
                   writeResponseArtifacts(report, flags.ResponsesDir, io = "artifacts"))

\* the dataset of the run: two cases as LoadDataset returns them
EvalCases ==
    <<[ID |-> "01", Title |-> "t", Source |-> SourceText, GoldInsights |-> <<"Units matter">>],
      [ID |-> "02", Title |-> "t", Source |-> SourceText,
       GoldInsights |-> <<"Check units daily.", "units">>]>>

\* the models selectModels returns
Selections == {<<"hf:org/M1">>, <<"hf:org/M1", "m2">>}

MaxRuns == 2

EarlierReport ==
    [GeneratedAt |-> ZeroTime, DatasetPath |-> "testdata/eval/walter_lewin",
     RecallThreshold |-> Frac(9, 10),
     Models |-> <<[ModelID |-> "old-model"]>>]
UneditedTemplate == buildLeaderboardContent(EarlierReport, "analysis-results/eval-responses/S0")
EditedTemplate ==
    ManualMarker \o "\n\n| Rank | Model | Notes |\n|---:|---|---|\n| 1 | ´old-model´ | best |\n"
GeneratedLeaderboard ==
    GeneratedMarker \o "\n\nfields: rank, model, runs\n\n1) ´old-model´\n- runs: 1\n\n"
GeneratedThenEdited == GeneratedLeaderboard \o "\n" \o ManualMarker \o "\nmy ranking\n"
PlainNotes == "# my notes\n\nold-model is best\n"

\* what the leaderboard path holds before the first run
LeaderboardFiles ==
    {Absent, Directory, TextFile(UneditedTemplate), TextFile(EditedTemplate),
     TextFile(GeneratedLeaderboard), TextFile(GeneratedThenEdited), TextFile(PlainNotes),
     TextFile(""), LockedFile(GeneratedLeaderboard)}

\* --no-history, --history, --leaderboard-out, --responses-dir,
\* --recall-threshold and --limit
Flags(nh, lo, lim) ==
    [NoHistory |-> nh, HistoryPath |-> "analysis-results/eval-history.jsonl",
     LeaderboardOut |-> lo, ResponsesDir |-> "analysis-results/eval-responses",
     RecallMin |-> Frac(9, 10), CaseLimit |-> lim]
DefaultLeaderboardOut == "analysis-results/eval-leaderboard.md"

\* the runs tried: both cases on an empty leaderboard path with the
\* default flags, and the first case only with every leaderboard file
\* and every setting of --no-history and --leaderboard-out
EvalSetups ==
    {<<Flags(FALSE, DefaultLeaderboardOut, 0), Absent>>}
    \cup {<<Flags(nh, lo, 1), f>> :
             nh \in BOOLEAN, lo \in {DefaultLeaderboardOut, " "}, f \in LeaderboardFiles}

\* runEval up to buildEvalReport: the cases cut to --limit, the selected
\* models, and the report of buildEvalReport before its loop
newRun(flags, selected, f, runs) ==
    [flags |-> flags,
     selected |-> selected,
     cases |-> IF flags.CaseLimit > 0 /\ flags.CaseLimit < Len(EvalCases)
               THEN SubSeq(EvalCases, 1, flags.CaseLimit) ELSE EvalCases,
     report |-> [GeneratedAt |-> [ZeroTime EXCEPT !.unix = runs + 1],
                 DatasetPath |-> "testdata/eval/walter_lewin",
                 RecallThreshold |-> flags.RecallMin,
                 Models |-> <<>>],
     calls |-> <<>>,
     op |-> "evaluating",
     runs |-> runs,
     leaderboard |-> f,
     leaderboardBefore |-> f,
     printed |-> "", responsesPath |-> "", files |-> {}, created |-> "not called",
     err |-> "nil"]

EvalInit ==
    /\ \E setup \in EvalSetups, selected \in Selections :
          run = newRun(setup[1], selected, setup[2], 0)
    /\ file = <<>>
    /\ exists = FALSE
    /\ hist = 0

\* the run after evalModel returned result: the result appended to the
\* report, the calls evalModel made appended to the calls of the run
evaluated(st, result) ==
    [st EXCEPT !.report.Models = Append(@, result),
               !.calls = @ \o streamCalls(result.ModelID, st.cases, Len(result.Cases))]

\* the run after finalizeEvalReport returned r
finished(st, r) ==
    [st EXCEPT !.op = "finalized", !.runs = @ + 1,
               !.leaderboardBefore = st.leaderboard, !.leaderboard = r.f,
               !.printed = r.printed, !.responsesPath = r.responsesPath,
               !.files = r.files, !.created = r.created, !.err = r.err]

\* one pass of the loop of buildEvalReport: evalModel for the next
\* selected model, its result appended to the report
EvalModelCall(ws) ==
    /\ run.op = "evaluating"
    /\ Len(run.report.Models) < Len(run.selected)
    /\ run' = evaluated(run, evalModel(run.selected[Len(run.report.Models) + 1], run.cases, ws))
    /\ UNCHANGED <<file, exists, hist>>

\* finalizeEvalReport after the loop.  The history file is not opened.
FinalizeEvalReport(io) ==
    /\ run.op = "evaluating"
    /\ Len(run.report.Models) = Len(run.selected)
    /\ run' = finished(run, finalizeEvalReport(run.report, run.flags, run.leaderboard, io))
    /\ UNCHANGED <<file, exists, hist>>

\* syn eval is run again, on the files the run before left
RunEvalAgain(selected) ==
    /\ run.op = "finalized"
    /\ run.runs < MaxRuns
    /\ run' = newRun(run.flags, selected, run.leaderboard, run.runs)
    /\ UNCHANGED <<file, exists, hist>>

EvalIdleOthers ==
    /\ ScoreIdle /\ SumIdle /\ ConcIdle /\ BoardIdle /\ DataIdle /\ ParseIdle
    /\ http = 0 /\ chat = 0 /\ render = 0

InitEval == EvalInit /\ EvalIdleOthers

evalOthers == <<scoreVars, sumVars, conc, board, data, parse, http, chat, render>>

NextEval ==
    \/ \E ws \in [1..Len(run.cases) -> Streams] : EvalModelCall(ws) /\ UNCHANGED evalOthers
    \/ \E io \in {"none", "artifacts", "mkdir", "write"} :
           FinalizeEvalReport(io) /\ UNCHANGED evalOthers
    \/ \E selected \in Selections : RunEvalAgain(selected) /\ UNCHANGED evalOthers

SpecEval == InitEval /\ [][NextEval]_vars

\* ---------------------------------------------------------------------
\* C21: one call and one CaseResult for each case

\* the call on exchange w fails, or its content is no JSON object
ClaimCallFails(w) == w.sendFails \/ w.status # 200 \/ w.readFails
ClaimNoJSON(w) == w = StreamProse

\* evalModel returned m for the cases with the exchanges ws, having made
\* the calls made
ClaimOneEach(m, modelID, caseList, ws, made) ==
    /\ Len(m.Cases) = Len(caseList)
    /\ Len(made) = Len(caseList)
    /\ \A i \in 1..Len(caseList) :
          /\ i <= Len(m.Cases) => m.Cases[i].CaseID = caseList[i].ID
          /\ i <= Len(made) =>
                made[i] = [Model |-> modelID, Prompt |-> BuildPrompt(caseList[i].Source)]
          /\ (i <= Len(m.Cases) /\ (ClaimCallFails(ws[i]) \/ ClaimNoJSON(ws[i]))) =>
                m.Cases[i].Error # ""
          /\ (i <= Len(m.Cases) /\ m.Cases[i].Error # "") => m.Cases[i].Score = ZeroScore
          /\ (i <= Len(m.Cases) /\ ~ClaimCallFails(ws[i]) /\ ~ClaimNoJSON(ws[i])) =>
                /\ m.Cases[i].Error = ""
                /\ m.Cases[i].Parsed # ZeroParsedOutput

ClaimEvalModelStep ==
    \A ws \in [1..Len(run.cases) -> Streams] :
        EvalModelCall(ws) =>
            /\ Len(run'.report.Models) = Len(run.report.Models) + 1
            /\ ClaimOneEach(run'.report.Models[Len(run'.report.Models)],
                            run.selected[Len(run.report.Models) + 1], run.cases, ws,
                            SubSeq(run'.calls, Len(run.calls) + 1, Len(run'.calls)))

\* C21: evalModel makes exactly one streaming call for each case, with the
\* prompt of that case, and returns exactly one CaseResult for each case,
\* in the order of the cases; a case whose call fails or whose output does
\* not parse has a non-empty Error and the zero Score, and the cases after
\* it are still evaluated.
Thm_C21_OneResultPerCase == [][ClaimEvalModelStep]_vars

\* a model whose first case was refused and whose second case parsed
Wit_C21_EvaluatedAfterFailure ==
    /\ Len(run.report.Models) >= 1
    /\ Len(run.report.Models[1].Cases) = 2
    /\ Len(run.calls) >= 2
    /\ run.report.Models[1].Cases[1].Error = "API error: 429 - slow down"
    /\ run.report.Models[1].Cases[1].Score = ZeroScore
    /\ run.report.Models[1].Cases[2].CaseID = "02"
    /\ run.report.Models[1].Cases[2].Error = ""
    /\ run.report.Models[1].Cases[2].Parsed.KeyInsights = <<"no units matter">>

\* ---------------------------------------------------------------------
\* C23: a hand-edited leaderboard file is never modified

\* the path holds a file whose content carries the manual marker or
\* lacks the marker of a generated leaderboard
ClaimHandEdited(f) ==
    /\ f.kind = "file"
    /\ \/ Contains(f.content, "# syn eval manual leaderboard")
       \/ ~Contains(f.content, "# syn eval leaderboard")

ClaimReachedLeaderboard ==
    /\ run.op = "evaluating"
    /\ run'.op = "finalized"
    /\ run'.err = "nil"
    /\ TrimSpace(run.flags.LeaderboardOut) # ""

ClaimKeptStep ==
    ClaimHandEdited(run.leaderboard) =>
        /\ run'.leaderboard = run.leaderboard
        /\ run'.created \in {"not called", "false"}
        /\ ClaimReachedLeaderboard => run'.created = "false"

\* C23: over any sequence of eval runs, a leaderboard file that exists
\* with hand-edited content (content with the manual marker, or without
\* the marker of a generated leaderboard) is never modified:
\* ensureManualLeaderboard leaves it as it is and reports that nothing
\* was created.
Thm_C23_HandEditedKept == [][ClaimKeptStep]_vars

\* notes without any marker, kept by the second run over them
Wit_C23_NotesKeptTwice ==
    /\ run.op = "finalized"
    /\ run.runs = 2
    /\ run.created = "false"
    /\ run.err = "nil"
    /\ run.leaderboardBefore = TextFile("# my notes\n\nold-model is best\n")
    /\ run.leaderboard = run.leaderboardBefore

\* ---------------------------------------------------------------------
\* C24: when the template is written

ClaimAbsent(f) == f.kind = "absent"

\* the path holds the template an earlier run wrote, as it was written
ClaimUneditedTemplate(f) == f = TextFile(UneditedTemplate)

\* the path holds a readable file with the marker of a generated
\* leaderboard and without the manual marker
ClaimGenerated(f) ==
    /\ f.kind = "file"
    /\ f.readable
    /\ Contains(f.content, "# syn eval leaderboard")
    /\ ~Contains(f.content, "# syn eval manual leaderboard")

\* f holds the template for the report: the manual marker first, the
\* directory of the responses, one row for each model
ClaimTemplateOf(f, report, responsesPath) ==
    /\ f.kind = "file"
    /\ HasPrefix(f.content, "# syn eval manual leaderboard\n")
    /\ Contains(f.content, "- responses_path: " \o Backtick \o responsesPath \o Backtick)
    /\ \A i \in 1..Len(report.Models) :
          Contains(f.content,
                   "|  | " \o Backtick \o report.Models[i].ModelID \o Backtick \o " |  |\n")

\* as stated: the template is written over an absent file and over the
\* unedited template of an earlier run, and nothing is written otherwise
\* (for a run without I/O error and with a leaderboard path)
ClaimStatedStep ==
    (FinalizeEvalReport("none") /\ TrimSpace(run.flags.LeaderboardOut) # "") =>
        IF ClaimAbsent(run.leaderboard) \/ ClaimUneditedTemplate(run.leaderboard)
        THEN /\ ClaimTemplateOf(run'.leaderboard, run.report, run'.responsesPath)
             /\ run'.created = "true"
        ELSE run'.leaderboard = run.leaderboard

ClaimWrittenStep ==
    \A io \in {"none", "artifacts", "mkdir", "write"} :
        FinalizeEvalReport(io) =>
            IF /\ io = "none"
               /\ TrimSpace(run.flags.LeaderboardOut) # ""
               /\ ClaimAbsent(run.leaderboard) \/ ClaimGenerated(run.leaderboard)
            THEN /\ ClaimTemplateOf(run'.leaderboard, run.report, run'.responsesPath)
                 /\ run'.leaderboard.readable
                 /\ run'.created = "true"
                 /\ run'.err = "nil"
            ELSE /\ run'.leaderboard = run.leaderboard
                 /\ run'.created # "true"

Orig_C25_ScoredAndSummarised ==
    \A k \in 1..Len(run.report.Models) :
        /\ \A i \in 1..Len(run.report.Models[k].Cases) :
              run.report.Models[k].Cases[i].Error = "" =>
                  run.report.Models[k].Cases[i].Score
                    = ScoreCase(run.cases[i], run.report.Models[k].Cases[i].Parsed,
                                run.flags.RecallMin)
        /\ run.report.Models[k].Summary
             = BuildModelSummary(run.report.Models[k].Cases, run.flags.RecallMin)

\* what holds instead: every Score and every Summary of a report is the
\* zero value, whatever the model answered
Obs_C25_NothingScored ==
    \A k \in 1..Len(run.report.Models) :
        /\ run.report.Models[k].Summary = ZeroSummary
        /\ \A i \in 1..Len(run.report.Models[k].Cases) :
              run.report.Models[k].Cases[i].Score = ZeroScore

\* ---------------------------------------------------------------------
\* C26: the history file after eval runs

\* C26: after a finalized run with history enabled (no --no-history, a
\* --history path that is not empty) the history file holds one record
\* more for each model the run evaluated: at least one for each run so
\* far, and after the first run as many as the report has models.
Orig_C26_HistoryAppended ==
    (/\ run.op = "finalized"
     /\ run.err = "nil"
     /\ ~run.flags.NoHistory
     /\ run.flags.HistoryPath # "") =>
        /\ exists
        /\ Len(LoadHistory(file, exists, FALSE).rows) >= run.runs
        /\ run.runs = 1 => Len(LoadHistory(file, exists, FALSE).rows) = Len(run.report.Models)

\* what holds instead: no eval run creates or changes the history file
Obs_C26_HistoryUntouched == [][file' = file /\ exists' = exists]_vars

====
